---- MODULE Spec2Model ----
(***************************************************************************)
(* A model of the dashboard's generic data table (UnifiedDataTable), its   *)
(* log viewer, its response parser and API client, its command and login   *)
(* hooks, and its scan dialogs, scan tables and screenshots gallery.       *)
(*                                                                         *)
(* Each component is a state machine of its own over its own group of      *)
(* variables; a component's specification holds the other groups at their  *)
(* idle value.  An action is one handler or one render of the component,   *)
(* with the effects React runs after it.  Variables named ...Calls are     *)
(* history variables: the callbacks the last step invoked, in order.       *)
(***************************************************************************)
EXTENDS Integers, Sequences, FiniteSets, TLC

VARIABLES
  \* UnifiedDataTable: row selection
  rowSelection, prevRowSelectionRef, hasOnSelectionChange, selCalls,
  \* UnifiedDataTable: pagination
  externalPagination, internalPagination, hasOnPaginationChange,
  hasSetExternalPagination, pagCalls, lastUpdater,
  \* UnifiedDataTable: bulk delete and its confirmation dialog
  deleteConfirmation, showBulkDelete, hasOnBulkDelete, deleteDialogOpen,
  selectedCount, deleteClicks, deleteConfirms, bulkDeleteCount,
  lastDeleteEvent,
  \* UnifiedDataTable: the rows handed to and shown by the table engine
  data, getRowIdMode, paginationInfo, sorting, tablePagination, rendered,
  validData, rowModel, pageCount,
  \* AnsiLogViewer: filterByLevel
  logContent, logLevel, logFiltered, logDone,
  \* response-parser: getErrorCode
  response, errorCode, parsed,
  \* useCommands: the paginated command list and the table that shows it
  totalItems, paramPage, paramPageSize, commandsResponse, shownItems, fetched,
  \* useCreateCommand / useUpdateCommand / useDeleteCommand
  mutationStatus, mutationOp, toasts, invalidated, staleQueries,
  mutationOutcome, errorData,
  \* DashboardDataTable / QuickScanDialog: requests started by user actions
  reqHandler, reqStatus, reqOutcome, reqToasts, reqConsole, reqUnhandled,
  reqCount, scanToDelete, scanToStop, progressDialogOpen, enginesLoaded,
  \* apiClient: the response error interceptor
  icError, hasWindow, locationHref, icRejected, icDone,
  \* ScanOverview: scan log polling
  scanStatus, overviewMounted, logsTimer, pollCount, pollLog, initialFetches,
  \* AnsiLogViewer: auto-scroll
  scrollHeight, scrollTop, isAtBottomRef, lastScrollDistance, lastScrollEvent,
  \* UnifiedDataTable: auto column sizing
  enableAutoColumnSizing, autoSizingCalculated, sizingRows, sizingColumns,
  columnSizing, calcRuns, calcResults,
  \* calculateColumnWidths
  widthColumn, widthData, headerWidth, sampleRowsOption, widthResult,
  widthDone,
  \* response-parser: parseResponse
  parseInput, parseData, parseResult, parseDone,
  \* ScreenshotsGallery: pagination
  galPagination, galServerTotal, galData, galError, galFilter, galLastEvent,
  \* AnsiLogViewer: highlightSearch
  searchContent, searchQuery, searchHtml, searchDone,
  \* api-client: getErrorMessage
  thrownError, errorMessage, messageDone,
  \* QuickScanDialog: the three-step wizard
  qsOpen, qsStep, qsTargetInput, qsSelectedEngineId, qsEngines, qsIsLoading,
  qsIsSubmitting, qsEngineLoads, qsInFlight, qsSubmitCount, qsLastRequest,
  qsToast,
  \* InitiateScanDialog: the dialog and its scan request
  isdOpen, isdSelectedEngineId, isdIsSubmitting, organizationId, targetId,
  isdInFlight, isdInitiateCount, isdToast, isdEvent,
  \* UnifiedDataTable: the rows delivered to onSelectionChange and the data
  tableData, syncRowSelection, syncPrevSelectionRef, deliveredRows, syncEvent,
  \* ScanLogList: the content memo and its cache
  scanLogs, contentRef, lastLogCountRef, lastLogIdRef, viewerContent, sllMemo,
  sllAppendOnly,
  \* DashboardDataTable: the delete and stop flows of a scan
  confirmDialogOpen, pendingScan, mutationsInFlight, confirmCount,
  settledCount, flowToasts, scansInvalidations, flowEvent,
  \* ScreenshotsGallery: the selection and the bulk delete
  serverShots, shotFilter, shotPage, screenshots, selectedIds, shotDialogOpen,
  isDeleting, deletesInFlight, sentIds, bulkDeletes, shotRefetches, shotToast,
  shotEvent,
  \* useLogin: the login mutation and the ['auth','me'] query
  loginStage, authObserved, authInvalidated, authFetching, authRefetches,
  loginToasts, routerPath, loginErrorData, loginCount

selVars == <<rowSelection, prevRowSelectionRef, hasOnSelectionChange, selCalls>>
pagVars == <<externalPagination, internalPagination, hasOnPaginationChange,
             hasSetExternalPagination, pagCalls, lastUpdater>>
delVars == <<deleteConfirmation, showBulkDelete, hasOnBulkDelete,
             deleteDialogOpen, selectedCount, deleteClicks, deleteConfirms,
             bulkDeleteCount, lastDeleteEvent>>
rowVars == <<data, getRowIdMode, paginationInfo, sorting, tablePagination,
             rendered, validData, rowModel, pageCount>>
logVars == <<logContent, logLevel, logFiltered, logDone>>
respVars == <<response, errorCode, parsed>>
listVars == <<totalItems, paramPage, paramPageSize, commandsResponse,
              shownItems, fetched>>
cmdVars == <<mutationStatus, mutationOp, toasts, invalidated, staleQueries,
             mutationOutcome, errorData>>
reqVars == <<reqHandler, reqStatus, reqOutcome, reqToasts, reqConsole,
             reqUnhandled, reqCount, scanToDelete, scanToStop,
             progressDialogOpen, enginesLoaded>>
icVars == <<icError, hasWindow, locationHref, icRejected, icDone>>
pollVars == <<scanStatus, overviewMounted, logsTimer, pollCount, pollLog,
              initialFetches>>
scrVars == <<scrollHeight, scrollTop, isAtBottomRef, lastScrollDistance,
             lastScrollEvent>>
sizVars == <<enableAutoColumnSizing, autoSizingCalculated, sizingRows,
             sizingColumns, columnSizing, calcRuns, calcResults>>
widVars == <<widthColumn, widthData, headerWidth, sampleRowsOption,
             widthResult, widthDone>>
prsVars == <<parseInput, parseData, parseResult, parseDone>>
galVars == <<galPagination, galServerTotal, galData, galError, galFilter,
             galLastEvent>>
hlVars == <<searchContent, searchQuery, searchHtml, searchDone>>
msgVars == <<thrownError, errorMessage, messageDone>>
qsVars == <<qsOpen, qsStep, qsTargetInput, qsSelectedEngineId, qsEngines,
            qsIsLoading, qsIsSubmitting, qsEngineLoads, qsInFlight,
            qsSubmitCount, qsLastRequest, qsToast>>
isdVars == <<isdOpen, isdSelectedEngineId, isdIsSubmitting, organizationId,
             targetId, isdInFlight, isdInitiateCount, isdToast, isdEvent>>
syncVars == <<tableData, syncRowSelection, syncPrevSelectionRef,
              deliveredRows, syncEvent>>
sllVars == <<scanLogs, contentRef, lastLogCountRef, lastLogIdRef,
             viewerContent, sllMemo, sllAppendOnly>>
flowVars == <<confirmDialogOpen, pendingScan, mutationsInFlight, confirmCount,
              settledCount, flowToasts, scansInvalidations, flowEvent>>
shotVars == <<serverShots, shotFilter, shotPage, screenshots, selectedIds,
              shotDialogOpen, isDeleting, deletesInFlight, sentIds,
              bulkDeletes, shotRefetches, shotToast, shotEvent>>
loginVars == <<loginStage, authObserved, authInvalidated, authFetching,
               authRefetches, loginToasts, routerPath, loginErrorData,
               loginCount>>
vars == <<selVars, pagVars, delVars, rowVars, logVars, respVars, listVars,
          cmdVars, reqVars, icVars, pollVars, scrVars, sizVars, widVars,
          prsVars, galVars, hlVars, msgVars, qsVars, isdVars, syncVars,
          sllVars, flowVars, shotVars, loginVars>>

\* What a component's actions leave alone: the other components' variables.
selOthers == <<pagVars, delVars, rowVars, logVars, respVars, listVars,
               cmdVars, reqVars, icVars, pollVars, scrVars, sizVars, widVars,
               prsVars, galVars, hlVars, msgVars, qsVars, isdVars, syncVars,
               sllVars, flowVars, shotVars, loginVars>>
pagOthers == <<selVars, delVars, rowVars, logVars, respVars, listVars,
               cmdVars, reqVars, icVars, pollVars, scrVars, sizVars, widVars,
               prsVars, galVars, hlVars, msgVars, qsVars, isdVars, syncVars,
               sllVars, flowVars, shotVars, loginVars>>
delOthers == <<selVars, pagVars, rowVars, logVars, respVars, listVars,
               cmdVars, reqVars, icVars, pollVars, scrVars, sizVars, widVars,
               prsVars, galVars, hlVars, msgVars, qsVars, isdVars, syncVars,
               sllVars, flowVars, shotVars, loginVars>>
rowOthers == <<selVars, pagVars, delVars, logVars, respVars, listVars,
               cmdVars, reqVars, icVars, pollVars, scrVars, sizVars, widVars,
               prsVars, galVars, hlVars, msgVars, qsVars, isdVars, syncVars,
               sllVars, flowVars, shotVars, loginVars>>
logOthers == <<selVars, pagVars, delVars, rowVars, respVars, listVars,
               cmdVars, reqVars, icVars, pollVars, scrVars, sizVars, widVars,
               prsVars, galVars, hlVars, msgVars, qsVars, isdVars, syncVars,
               sllVars, flowVars, shotVars, loginVars>>
respOthers == <<selVars, pagVars, delVars, rowVars, logVars, listVars,
                cmdVars, reqVars, icVars, pollVars, scrVars, sizVars, widVars,
                prsVars, galVars, hlVars, msgVars, qsVars, isdVars, syncVars,
                sllVars, flowVars, shotVars, loginVars>>
listOthers == <<selVars, pagVars, delVars, rowVars, logVars, respVars,
                cmdVars, reqVars, icVars, pollVars, scrVars, sizVars, widVars,
                prsVars, galVars, hlVars, msgVars, qsVars, isdVars, syncVars,
                sllVars, flowVars, shotVars, loginVars>>
cmdOthers == <<selVars, pagVars, delVars, rowVars, logVars, respVars,
               listVars, reqVars, icVars, pollVars, scrVars, sizVars, widVars,
               prsVars, galVars, hlVars, msgVars, qsVars, isdVars, syncVars,
               sllVars, flowVars, shotVars, loginVars>>
reqOthers == <<selVars, pagVars, delVars, rowVars, logVars, respVars,
               listVars, cmdVars, icVars, pollVars, scrVars, sizVars, widVars,
               prsVars, galVars, hlVars, msgVars, qsVars, isdVars, syncVars,
               sllVars, flowVars, shotVars, loginVars>>
icOthers == <<selVars, pagVars, delVars, rowVars, logVars, respVars, listVars,
              cmdVars, reqVars, pollVars, scrVars, sizVars, widVars, prsVars,
              galVars, hlVars, msgVars, qsVars, isdVars, syncVars, sllVars,
              flowVars, shotVars, loginVars>>
pollOthers == <<selVars, pagVars, delVars, rowVars, logVars, respVars,
                listVars, cmdVars, reqVars, icVars, scrVars, sizVars, widVars,
                prsVars, galVars, hlVars, msgVars, qsVars, isdVars, syncVars,
                sllVars, flowVars, shotVars, loginVars>>
scrOthers == <<selVars, pagVars, delVars, rowVars, logVars, respVars,
               listVars, cmdVars, reqVars, icVars, pollVars, sizVars, widVars,
               prsVars, galVars, hlVars, msgVars, qsVars, isdVars, syncVars,
               sllVars, flowVars, shotVars, loginVars>>
sizOthers == <<selVars, pagVars, delVars, rowVars, logVars, respVars,
               listVars, cmdVars, reqVars, icVars, pollVars, scrVars, widVars,
               prsVars, galVars, hlVars, msgVars, qsVars, isdVars, syncVars,
               sllVars, flowVars, shotVars, loginVars>>
widOthers == <<selVars, pagVars, delVars, rowVars, logVars, respVars,
               listVars, cmdVars, reqVars, icVars, pollVars, scrVars, sizVars,
               prsVars, galVars, hlVars, msgVars, qsVars, isdVars, syncVars,
               sllVars, flowVars, shotVars, loginVars>>
prsOthers == <<selVars, pagVars, delVars, rowVars, logVars, respVars,
               listVars, cmdVars, reqVars, icVars, pollVars, scrVars, sizVars,
               widVars, galVars, hlVars, msgVars, qsVars, isdVars, syncVars,
               sllVars, flowVars, shotVars, loginVars>>
galOthers == <<selVars, pagVars, delVars, rowVars, logVars, respVars,
               listVars, cmdVars, reqVars, icVars, pollVars, scrVars, sizVars,
               widVars, prsVars, hlVars, msgVars, qsVars, isdVars, syncVars,
               sllVars, flowVars, shotVars, loginVars>>
hlOthers == <<selVars, pagVars, delVars, rowVars, logVars, respVars, listVars,
              cmdVars, reqVars, icVars, pollVars, scrVars, sizVars, widVars,
              prsVars, galVars, msgVars, qsVars, isdVars, syncVars, sllVars,
              flowVars, shotVars, loginVars>>
msgOthers == <<selVars, pagVars, delVars, rowVars, logVars, respVars,
               listVars, cmdVars, reqVars, icVars, pollVars, scrVars, sizVars,
               widVars, prsVars, galVars, hlVars, qsVars, isdVars, syncVars,
               sllVars, flowVars, shotVars, loginVars>>
qsOthers == <<selVars, pagVars, delVars, rowVars, logVars, respVars, listVars,
              cmdVars, reqVars, icVars, pollVars, scrVars, sizVars, widVars,
              prsVars, galVars, hlVars, msgVars, isdVars, syncVars, sllVars,
              flowVars, shotVars, loginVars>>
isdOthers == <<selVars, pagVars, delVars, rowVars, logVars, respVars,
               listVars, cmdVars, reqVars, icVars, pollVars, scrVars, sizVars,
               widVars, prsVars, galVars, hlVars, msgVars, qsVars, syncVars,
               sllVars, flowVars, shotVars, loginVars>>
syncOthers == <<selVars, pagVars, delVars, rowVars, logVars, respVars,
                listVars, cmdVars, reqVars, icVars, pollVars, scrVars,
                sizVars, widVars, prsVars, galVars, hlVars, msgVars, qsVars,
                isdVars, sllVars, flowVars, shotVars, loginVars>>
sllOthers == <<selVars, pagVars, delVars, rowVars, logVars, respVars,
               listVars, cmdVars, reqVars, icVars, pollVars, scrVars, sizVars,
               widVars, prsVars, galVars, hlVars, msgVars, qsVars, isdVars,
               syncVars, flowVars, shotVars, loginVars>>
flowOthers == <<selVars, pagVars, delVars, rowVars, logVars, respVars,
                listVars, cmdVars, reqVars, icVars, pollVars, scrVars,
                sizVars, widVars, prsVars, galVars, hlVars, msgVars, qsVars,
                isdVars, syncVars, sllVars, shotVars, loginVars>>
shotOthers == <<selVars, pagVars, delVars, rowVars, logVars, respVars,
                listVars, cmdVars, reqVars, icVars, pollVars, scrVars,
                sizVars, widVars, prsVars, galVars, hlVars, msgVars, qsVars,
                isdVars, syncVars, sllVars, flowVars, loginVars>>
loginOthers == <<selVars, pagVars, delVars, rowVars, logVars, respVars,
                 listVars, cmdVars, reqVars, icVars, pollVars, scrVars,
                 sizVars, widVars, prsVars, galVars, hlVars, msgVars, qsVars,
                 isdVars, syncVars, sllVars, flowVars, shotVars>>

(***************************************************************************)
(* Bounds of the model.                                                    *)
(***************************************************************************)
MaxRowKeys == 3
MaxPageIndex == 2

RowKeys == 1..MaxRowKeys

(***************************************************************************)
(* UnifiedDataTable: the row-selection effect.                             *)
(* A selection map is a JavaScript Record<string, boolean>: a function     *)
(* from the keys it holds to their values.                                 *)
(***************************************************************************)
SelectionMaps == UNION {[S -> BOOLEAN] : S \in SUBSET RowKeys}

EmptySelection == [k \in {} |-> TRUE]

\* obj[key] in JavaScript: undefined for a key the object does not hold.
JSGet(obj, key) ==
  IF key \in DOMAIN obj THEN (IF obj[key] THEN "true" ELSE "false") ELSE "undefined"

\* A comparison that only looks at the number of keys.
selectionChanged_LengthOnly(selection, prevSelection) ==
  Cardinality(DOMAIN selection) # Cardinality(DOMAIN prevSelection)

\* Object.keys(a).length !== Object.keys(b).length || Object.keys(a).some(...)
selectionChanged(selection, prevSelection) ==
  \/ Cardinality(DOMAIN selection) # Cardinality(DOMAIN prevSelection)
  \/ \E key \in DOMAIN selection : JSGet(selection, key) # JSGet(prevSelection, key)

\* table.getFilteredSelectedRowModel().rows: the rows whose id is selected.
SelectedRows(selection) == {k \in DOMAIN selection : selection[k]}

\* The effect of lines 332-345, run after a render whose dependencies changed.
SelectionEffect ==
  IF hasOnSelectionChange' /\ selectionChanged(rowSelection', prevRowSelectionRef)
  THEN /\ prevRowSelectionRef' = rowSelection'
       /\ selCalls' = <<SelectedRows(rowSelection')>>
  ELSE /\ prevRowSelectionRef' = prevRowSelectionRef
       /\ selCalls' = <<>>

SelInit ==
  /\ rowSelection = EmptySelection
  /\ prevRowSelectionRef = EmptySelection
  /\ hasOnSelectionChange \in BOOLEAN
  /\ selCalls = <<>>

SelIdle ==
  /\ rowSelection = EmptySelection
  /\ prevRowSelectionRef = EmptySelection
  /\ hasOnSelectionChange = FALSE
  /\ selCalls = <<>>

\* handleRowSelectionChange (or the caller's rowSelection prop) yields a new
\* map object, equal to the old one or not; the table renders and the effect runs.
RowSelectionUpdate(newValue) ==
  /\ rowSelection' = newValue
  /\ UNCHANGED hasOnSelectionChange
  /\ SelectionEffect
  /\ UNCHANGED selOthers

\* The caller passes another onSelectionChange (or none): a dependency of the
\* effect changes, so the effect runs with the selection as it is.
OnSelectionChangeProp(present) ==
  /\ hasOnSelectionChange' = present
  /\ UNCHANGED rowSelection
  /\ SelectionEffect
  /\ UNCHANGED selOthers

\* A render that changes no dependency of the effect: the effect does not run.
SelRerender ==
  /\ selCalls # <<>>
  /\ selCalls' = <<>>
  /\ UNCHANGED <<rowSelection, prevRowSelectionRef, hasOnSelectionChange>>
  /\ UNCHANGED selOthers

SelNext ==
  \/ \E m \in SelectionMaps : RowSelectionUpdate(m)
  \/ \E b \in BOOLEAN : OnSelectionChangeProp(b)
  \/ SelRerender

\* C1: over any sequence of renders and row-selection updates, a step invokes
\* onSelectionChange exactly once when it leaves a selection map that differs
\* (by key set or by the value of a key) from the map last reported, and not
\* at all when the map equals the map last reported (or no callback is
\* passed); the map reported is then the map last reported, starting from {}.
C1_OncePerDistinctSelection ==
  [][ /\ Len(selCalls') =
           IF hasOnSelectionChange' /\ rowSelection' # prevRowSelectionRef THEN 1 ELSE 0
      /\ (Len(selCalls') = 1 => /\ prevRowSelectionRef' = rowSelection'
                                /\ selCalls'[1] = SelectedRows(rowSelection'))
      /\ (Len(selCalls') = 0 => prevRowSelectionRef' = prevRowSelectionRef) ]_vars

\* C1's case: the selection went from one single-key map to another one of
\* the same size, and the change was reported.
C1_Witness ==
  /\ selCalls = <<{2}>>
  /\ prevRowSelectionRef = [k \in {2} |-> TRUE]

(***************************************************************************)
(* UnifiedDataTable: pagination, controlled or uncontrolled.               *)
(***************************************************************************)
DefaultPageSize == 10
PageSizes == {DefaultPageSize, 2 * DefaultPageSize}

PaginationStates == [pageIndex : 0..MaxPageIndex, pageSize : PageSizes]

\* The pagination prop when the caller passes none.
Undefined == [pageIndex |-> 0 - 1, pageSize |-> 0 - 1]

InitialPagination == [pageIndex |-> 0, pageSize |-> DefaultPageSize]

\* An Updater<PaginationState>: a value, or one of the functions of the old
\* value the table engine passes (previousPage, nextPage, setPageSize), or the
\* identity function.
Updaters ==
  [kind : {"value"}, pageIndex : 0..MaxPageIndex, pageSize : PageSizes]
    \cup [kind : {"nextPage", "previousPage", "identity"}, pageIndex : {0}, pageSize : {0}]
    \cup [kind : {"setPageSize"}, pageIndex : {0}, pageSize : PageSizes]

NoUpdater == [kind |-> "none", pageIndex |-> 0, pageSize |-> 0]

Max(a, b) == IF a >= b THEN a ELSE b

\* typeof updater === 'function' ? updater(currentPagination) : updater
ApplyUpdater(updater, current) ==
  CASE updater.kind = "value" ->
         [pageIndex |-> updater.pageIndex, pageSize |-> updater.pageSize]
    [] updater.kind = "nextPage" ->
         [current EXCEPT !.pageIndex = current.pageIndex + 1]
    [] updater.kind = "previousPage" ->
         [current EXCEPT !.pageIndex = Max(0, current.pageIndex - 1)]
    [] updater.kind = "setPageSize" ->
         [pageIndex |-> (current.pageSize * current.pageIndex) \div updater.pageSize,
          pageSize |-> updater.pageSize]
    [] OTHER -> current

isExternalPagination ==
  externalPagination # Undefined /\ (hasOnPaginationChange \/ hasSetExternalPagination)

\* externalPagination ?? internalPagination; paginationRef.current holds it
\* from the render on.
pagination ==
  IF externalPagination # Undefined THEN externalPagination ELSE internalPagination

\* The value a closure over the internal state would hold.
paginationRef_InternalOnly == internalPagination

\* paginationRef.current, assigned from pagination on every render.
paginationRef == pagination

paginationUnchanged(newPagination, currentPagination) ==
  /\ newPagination.pageIndex = currentPagination.pageIndex
  /\ newPagination.pageSize = currentPagination.pageSize

PagInit ==
  /\ externalPagination \in {Undefined, InitialPagination}
  /\ internalPagination = InitialPagination
  /\ hasOnPaginationChange \in BOOLEAN
  /\ hasSetExternalPagination \in BOOLEAN
  /\ pagCalls = <<>>
  /\ lastUpdater = NoUpdater

PagIdle ==
  /\ externalPagination = Undefined
  /\ internalPagination = InitialPagination
  /\ hasOnPaginationChange = FALSE
  /\ hasSetExternalPagination = FALSE
  /\ pagCalls = <<>>
  /\ lastUpdater = NoUpdater

\* handlePaginationChange, with what the callback it invokes does: the
\* caller's onPaginationChange stores the new value or drops it, the caller's
\* setPagination (a state setter) stores it.
handlePaginationChange(updater) ==
  LET currentPagination == paginationRef
      newPagination == ApplyUpdater(updater, currentPagination)
  IN /\ newPagination \in PaginationStates
     /\ lastUpdater' = updater
     /\ UNCHANGED <<hasOnPaginationChange, hasSetExternalPagination>>
     /\ UNCHANGED pagOthers
     /\ IF paginationUnchanged(newPagination, currentPagination)
        THEN /\ pagCalls' = <<>>
             /\ UNCHANGED <<externalPagination, internalPagination>>
        ELSE IF isExternalPagination
        THEN IF hasOnPaginationChange
             THEN /\ pagCalls' = <<[fn |-> "onPaginationChange", arg |-> newPagination]>>
                  /\ externalPagination' \in {newPagination, externalPagination}
                  /\ UNCHANGED internalPagination
             ELSE /\ pagCalls' = <<[fn |-> "setPagination", arg |-> newPagination]>>
                  /\ externalPagination' = newPagination
                  /\ UNCHANGED internalPagination
        ELSE /\ pagCalls' = <<[fn |-> "setInternalPagination", arg |-> newPagination]>>
             /\ internalPagination' = newPagination
             /\ UNCHANGED externalPagination

\* The caller changes the pagination it passes (a search that goes back to
\* the first page, a reset): a render with another prop, no handler runs.
CallerSetsPagination(p) ==
  /\ externalPagination # Undefined
  /\ p # externalPagination
  /\ externalPagination' = p
  /\ pagCalls' = <<>>
  /\ lastUpdater' = NoUpdater
  /\ UNCHANGED <<internalPagination, hasOnPaginationChange, hasSetExternalPagination>>
  /\ UNCHANGED pagOthers

PagNext ==
  \/ \E u \in Updaters : handlePaginationChange(u)
  \/ \E p \in PaginationStates : CallerSetsPagination(p)

\* The last step was a call of handlePaginationChange whose updater yields ...
HandledUnchanged ==
  /\ lastUpdater' # NoUpdater
  /\ ApplyUpdater(lastUpdater', pagination) = pagination

HandledChange ==
  /\ lastUpdater' # NoUpdater
  /\ ApplyUpdater(lastUpdater', pagination) # pagination

\* C2: handlePaginationChange with an updater (a value or a function of the
\* current pagination) whose result has the pageIndex and pageSize of the
\* current pagination calls none of onPaginationChange, setPagination and the
\* internal setter, and leaves the pagination state as it is.
C2_UnchangedPaginationIsNoOp ==
  [][ (pagCalls' # <<>> \/ internalPagination' # internalPagination
         \/ externalPagination' # externalPagination)
      => ~HandledUnchanged ]_vars

\* C2's case: a controlled table away from the first page handled an updater
\* that yields the page it shows, and called nothing.
C2_Witness ==
  /\ isExternalPagination
  /\ pagination.pageIndex = 1
  /\ lastUpdater.kind \in {"value", "setPageSize", "identity"}
  /\ ApplyUpdater(lastUpdater, pagination) = pagination
  /\ pagCalls = <<>>

\* C6: with pagination and one of onPaginationChange, setPagination passed,
\* every effective page change goes to exactly one caller callback
\* (onPaginationChange before setPagination) and never to the internal state;
\* in every other configuration it goes to the internal state, to no caller
\* callback, and the pagination the table displays follows it.
C6_ControlledOrUncontrolled ==
  [][ HandledChange =>
        LET new == ApplyUpdater(lastUpdater', pagination)
        IN IF externalPagination # Undefined
              /\ (hasOnPaginationChange \/ hasSetExternalPagination)
           THEN /\ pagCalls' = <<[fn |-> IF hasOnPaginationChange
                                         THEN "onPaginationChange" ELSE "setPagination",
                                  arg |-> new]>>
                /\ internalPagination' = internalPagination
           ELSE /\ pagCalls' = <<[fn |-> "setInternalPagination", arg |-> new]>>
                /\ internalPagination' = new
                /\ pagination' = new ]_vars

(***************************************************************************)
(* UnifiedDataTable: bulk delete and its confirmation dialog.              *)
(* deleteClicks, deleteConfirms and bulkDeleteCount count the clicks on    *)
(* the bulk delete button, the clicks on the dialog's confirm button and   *)
(* the calls of onBulkDelete.                                              *)
(***************************************************************************)
MaxSelected == 2
MaxDeleteClicks == 3

DelInit ==
  /\ deleteConfirmation \in BOOLEAN
  /\ showBulkDelete \in BOOLEAN
  /\ hasOnBulkDelete \in BOOLEAN
  /\ deleteDialogOpen = FALSE
  /\ selectedCount = 0
  /\ deleteClicks = 0
  /\ deleteConfirms = 0
  /\ bulkDeleteCount = 0
  /\ lastDeleteEvent = "none"

DelIdle ==
  /\ deleteConfirmation = FALSE
  /\ showBulkDelete = FALSE
  /\ hasOnBulkDelete = FALSE
  /\ deleteDialogOpen = FALSE
  /\ selectedCount = 0
  /\ deleteClicks = 0
  /\ deleteConfirms = 0
  /\ bulkDeleteCount = 0
  /\ lastDeleteEvent = "none"

\* onBulkDelete?.(): one call when the callback is passed.
CallOnBulkDelete == IF hasOnBulkDelete THEN 1 ELSE 0

\* A click handler that deletes whether a confirmation is configured or not.
DeleteClickCalls_Ungated == CallOnBulkDelete

\* handleDeleteClick's calls of onBulkDelete: none when it opens the dialog.
DeleteClickCalls == IF deleteConfirmation THEN 0 ELSE CallOnBulkDelete

\* The rows selected change (selectedCount of line 348).
SelectRows(n) ==
  /\ n # selectedCount
  /\ selectedCount' = n
  /\ lastDeleteEvent' = "select"
  /\ UNCHANGED <<deleteConfirmation, showBulkDelete, hasOnBulkDelete, deleteDialogOpen,
                 deleteClicks, deleteConfirms, bulkDeleteCount>>
  /\ UNCHANGED delOthers

\* A click on the bulk delete button: rendered when showBulkDelete and
\* onBulkDelete, disabled when nothing is selected, covered by the dialog
\* (a modal) while that is open.
handleDeleteClick ==
  /\ showBulkDelete /\ hasOnBulkDelete
  /\ selectedCount # 0
  /\ ~deleteDialogOpen
  /\ deleteClicks < MaxDeleteClicks
  /\ deleteClicks' = deleteClicks + 1
  /\ deleteDialogOpen' = (deleteConfirmation \/ deleteDialogOpen)
  /\ bulkDeleteCount' = bulkDeleteCount + DeleteClickCalls
  /\ lastDeleteEvent' = "click"
  /\ UNCHANGED <<deleteConfirmation, showBulkDelete, hasOnBulkDelete, selectedCount,
                 deleteConfirms>>
  /\ UNCHANGED delOthers

\* A click on the dialog's confirm button (AlertDialogAction).
handleDeleteConfirm ==
  /\ deleteConfirmation /\ deleteDialogOpen
  /\ deleteConfirms' = deleteConfirms + 1
  /\ deleteDialogOpen' = FALSE
  /\ bulkDeleteCount' = bulkDeleteCount + CallOnBulkDelete
  /\ lastDeleteEvent' = "confirm"
  /\ UNCHANGED <<deleteConfirmation, showBulkDelete, hasOnBulkDelete, selectedCount,
                 deleteClicks>>
  /\ UNCHANGED delOthers

\* The cancel button or a dismissal (Escape): onOpenChange(false).
DeleteDialogDismiss(how) ==
  /\ deleteConfirmation /\ deleteDialogOpen
  /\ deleteDialogOpen' = FALSE
  /\ lastDeleteEvent' = how
  /\ UNCHANGED <<deleteConfirmation, showBulkDelete, hasOnBulkDelete, selectedCount,
                 deleteClicks, deleteConfirms, bulkDeleteCount>>
  /\ UNCHANGED delOthers

DelNext ==
  \/ \E n \in 0..MaxSelected : SelectRows(n)
  \/ handleDeleteClick
  \/ handleDeleteConfirm
  \/ \E how \in {"cancel", "dismiss"} : DeleteDialogDismiss(how)

\* C8: with deleteConfirmation configured, a click on bulk delete only opens
\* the dialog and onBulkDelete has been called once per confirmation and
\* never otherwise (not by a click, a cancel or a dismissal), the confirmation
\* closing the dialog; without it, onBulkDelete has been called once per click
\* and there is no dialog.
C8_DeleteGatedByConfirmation ==
  IF deleteConfirmation
  THEN /\ bulkDeleteCount = deleteConfirms
       /\ deleteConfirms <= deleteClicks
       /\ (lastDeleteEvent = "click" => deleteDialogOpen)
       /\ (lastDeleteEvent \in {"confirm", "cancel", "dismiss"} => ~deleteDialogOpen)
       /\ (deleteDialogOpen => deleteConfirms < deleteClicks)
  ELSE /\ bulkDeleteCount = deleteClicks
       /\ ~deleteDialogOpen

\* C8's case: two deletions were asked for, one was cancelled and one
\* confirmed, and the confirmation has just closed the dialog.
C8_Witness ==
  /\ deleteConfirmation
  /\ deleteClicks = 2
  /\ deleteConfirms = 1
  /\ bulkDeleteCount = 1
  /\ lastDeleteEvent = "confirm"
  /\ ~deleteDialogOpen

(***************************************************************************)
(* UnifiedDataTable: the rows handed to the table engine and the rows the  *)
(* engine shows (useReactTable with the options of lines 277-312).         *)
(* A data entry is null or a row; a row's id is 0 when the row has no id   *)
(* field; name is the value of the column the table may sort by.           *)
(***************************************************************************)
MaxRows == 3

NullRow == [kind |-> "null", id |-> 0, name |-> 0]
Rows == [kind : {"row"}, id : 0..1, name : 1..2]
DataEntries == {NullRow} \cup Rows
DataArrays == UNION {[1..n -> DataEntries] : n \in 0..MaxRows}

\* getRowId as the callers pass it: "default" is the component's default,
\* "string" is (row) => String(row.id) of the table wrappers, "raw" is a
\* caller's (row) => row.id.
GetRowIdModes == {"default", "string", "raw"}

IdString(id) == IF id = 0 THEN "0" ELSE "1"

\* The value of getRowId(row): its typeof and, for a string, the string.
getRowId(mode, row) ==
  CASE mode = "default" ->
         \* String((row as { id?: string | number }).id ?? '')
         [type |-> "string", str |-> IF row.id = 0 THEN "" ELSE IdString(row.id)]
    [] mode = "string" ->
         [type |-> "string", str |-> IF row.id = 0 THEN "undefined" ELSE IdString(row.id)]
    [] OTHER ->
         IF row.id = 0 THEN [type |-> "undefined", str |-> ""]
         ELSE [type |-> "number", str |-> IdString(row.id)]

\* (data || []).filter(item => item && typeof getRowId(item) !== 'undefined')
FilterValidData(d, mode) ==
  SelectSeq(d, LAMBDA item : item # NullRow /\ getRowId(mode, item).type # "undefined")

Min(a, b) == IF a <= b THEN a ELSE b

\* Array.prototype.slice(start, end) on a sequence, start and end 0-based.
Slice(seq, start, end) == SubSeq(seq, start + 1, Min(end, Len(seq)))

\* The place of row r in the sorted sequence s: before the first row that
\* sorts strictly after it (the engine's sort is stable).
InsertSorted(s, r, desc) ==
  LET after == {i \in 1..Len(s) :
                  IF desc THEN s[i].name < r.name ELSE s[i].name > r.name}
  IN IF after = {} THEN Append(s, r)
     ELSE LET i == CHOOSE j \in after : \A k \in after : j <= k
          IN SubSeq(s, 1, i - 1) \o <<r>> \o SubSeq(s, i, Len(s))

RECURSIVE SortRows(_, _)
SortRows(rows, desc) ==
  IF rows = <<>> THEN <<>>
  ELSE InsertSorted(SortRows(SubSeq(rows, 1, Len(rows) - 1), desc), rows[Len(rows)], desc)

\* getSortedRowModel: the rows as they are while the sorting state is empty
\* (manualSorting is not set: the engine sorts whenever it is not).
SortedRowModel(rows, sort) ==
  IF sort = "none" THEN rows ELSE SortRows(rows, sort = "desc")

\* getPaginationRowModel: the rows as they are under manualPagination, the
\* rows of the page otherwise.
PaginationRowModel(rows, manualPagination, pageIndex, pageSize) ==
  IF manualPagination THEN rows
  ELSE Slice(rows, pageIndex * pageSize, pageIndex * pageSize + pageSize)

NoPaginationInfo == [present |-> FALSE, totalPages |-> 0]
PaginationInfos == {NoPaginationInfo} \cup [present : {TRUE}, totalPages : 1..2]

TablePaginations == [pageIndex : 0..1, pageSize : 1..2]

\* table.getRowModel().rows
TableRowModel(valid, info, sort, pag) ==
  PaginationRowModel(SortedRowModel(valid, sort), info.present, pag.pageIndex, pag.pageSize)

\* pageCount: paginationInfo?.totalPages ?? -1
TablePageCount(info) == IF info.present THEN info.totalPages ELSE 0 - 1

RowInit ==
  /\ data \in DataArrays
  /\ getRowIdMode \in GetRowIdModes
  /\ paginationInfo \in PaginationInfos
  /\ sorting \in {"none", "asc", "desc"}
  /\ tablePagination \in TablePaginations
  /\ rendered = FALSE
  /\ validData = <<>>
  /\ rowModel = <<>>
  /\ pageCount = 0

RowIdle ==
  /\ data = <<>>
  /\ getRowIdMode = "default"
  /\ paginationInfo = NoPaginationInfo
  /\ sorting = "none"
  /\ tablePagination = [pageIndex |-> 0, pageSize |-> 1]
  /\ rendered = FALSE
  /\ validData = <<>>
  /\ rowModel = <<>>
  /\ pageCount = 0

\* What a render computes from the props and the state.
RenderOutputs ==
  LET valid == FilterValidData(data', getRowIdMode')
  IN /\ rendered' = TRUE
     /\ validData' = valid
     /\ rowModel' = TableRowModel(valid, paginationInfo', sorting', tablePagination')
     /\ pageCount' = TablePageCount(paginationInfo')

\* The first render of the table.
RenderTable ==
  /\ ~rendered
  /\ UNCHANGED <<data, getRowIdMode, paginationInfo, sorting, tablePagination>>
  /\ RenderOutputs
  /\ UNCHANGED rowOthers

\* handleSortingChange: a click on a column header sets the sorting state
\* (setInternalSorting, or the caller's onSortingChange storing it in the
\* sorting prop), then the table renders with it.
handleSortingChange(newValue) ==
  /\ rendered
  /\ newValue # sorting
  /\ sorting' = newValue
  /\ UNCHANGED <<data, getRowIdMode, paginationInfo, tablePagination>>
  /\ RenderOutputs
  /\ UNCHANGED rowOthers

RowNext ==
  \/ RenderTable
  \/ \E s \in {"none", "asc", "desc"} : handleSortingChange(s)

\* A row that has an id.
HasId(item) == item # NullRow /\ item.id # 0

\* C7: with paginationInfo the table reports pageCount = totalPages and shows
\* the rows it was given as they are, not sliced by pageIndex and pageSize
\* and not sorted again; without paginationInfo it shows the page of the rows
\* that pageIndex and pageSize select.
C7_ServerDrivenRows ==
  rendered =>
    IF paginationInfo.present
    THEN /\ pageCount = paginationInfo.totalPages
         /\ rowModel = validData
    ELSE rowModel = Slice(SortedRowModel(validData, sorting),
                          tablePagination.pageIndex * tablePagination.pageSize,
                          (tablePagination.pageIndex + 1) * tablePagination.pageSize)

\* C9: the rows handed to the table engine are the rows of data that have an
\* id, in order: null entries and rows without an id are removed, with the
\* default getRowId and with a caller's.
C9_RowsWithoutIdRemoved ==
  rendered => validData = SelectSeq(data, HasId)

(***************************************************************************)
(* AnsiLogViewer: filterByLevel.                                           *)
(* The content is its lines (content.split("\n")).  A line is what the     *)
(* patterns see of it: marker is the level word one of LOG_LEVEL_PATTERNS  *)
(* captures ("" when none matches), entryStart tells whether one of        *)
(* NEW_ENTRY_PATTERNS matches.                                             *)
(***************************************************************************)
MaxLogLines == 3

LogLines ==
  { [marker |-> "",         entryStart |-> FALSE],  \* "  File x.py, line 3"
    [marker |-> "",         entryStart |-> TRUE],   \* "[1/4] step", "=========="
    [marker |-> "INFO",     entryStart |-> FALSE],  \* "[INFO] started"
    [marker |-> "INFO",     entryStart |-> TRUE],   \* "[2026-01-07 12:00:00] [INFO] x"
    [marker |-> "WARNING",  entryStart |-> TRUE],   \* "12:01:50.419 | WARNING | prefect"
    [marker |-> "error",    entryStart |-> FALSE],  \* "error: boom"
    [marker |-> "CRITICAL", entryStart |-> FALSE] } \* "CRITICAL - down"

LogContents == UNION {[1..n -> LogLines] : n \in 0..MaxLogLines}

\* The levels of the toolbar's selector.
LogLevels == {"all", "info", "warn", "error"}

\* String.prototype.toUpperCase on the words the model uses.
ToUpperCase(str) ==
  CASE str = "info" -> "INFO"
    [] str = "warn" -> "WARN"
    [] str = "error" -> "ERROR"
    [] OTHER -> str

NoLevel == "null"

\* extractLogLevel: match[1].toUpperCase() of the first pattern that
\* matches, null when none does.
extractLogLevel(line) ==
  IF line.marker = "" THEN NoLevel ELSE ToUpperCase(line.marker)

isNewEntryStart(line) == line.entryStart

\* A normalisation that only changes the case.
normalizeLevel_CaseOnly(l) == ToUpperCase(l)

normalizeLevel(l) ==
  LET upper == ToUpperCase(l)
  IN IF upper = "WARNING" THEN "WARN"
     ELSE IF upper = "CRITICAL" THEN "ERROR"
     ELSE upper

\* The loop of filterByLevel over the lines left, currentBlockVisible being
\* what the lines before left it at.
RECURSIVE FilterLines(_, _, _)
FilterLines(lines, targetLevel, currentBlockVisible) ==
  IF lines = <<>> THEN <<>>
  ELSE LET line == Head(lines)
           extractedLevel == extractLogLevel(line)
           visible == IF extractedLevel # NoLevel
                      THEN normalizeLevel(extractedLevel) = targetLevel
                      ELSE IF isNewEntryStart(line) THEN FALSE
                      ELSE currentBlockVisible
       IN (IF visible THEN <<line>> ELSE <<>>)
            \o FilterLines(Tail(lines), targetLevel, visible)

filterByLevel(content, level) ==
  IF level = "all" THEN content
  ELSE FilterLines(content, normalizeLevel(level), FALSE)

LogInit ==
  /\ logContent \in LogContents
  /\ logLevel \in LogLevels
  /\ logFiltered = <<>>
  /\ logDone = FALSE

LogIdle ==
  /\ logContent = <<>>
  /\ logLevel = "all"
  /\ logFiltered = <<>>
  /\ logDone = FALSE

\* The render of the viewer: the memo filters the content by the level.
RenderLog ==
  /\ ~logDone
  /\ logDone' = TRUE
  /\ logFiltered' = filterByLevel(logContent, logLevel)
  /\ UNCHANGED <<logContent, logLevel>>
  /\ UNCHANGED logOthers

\* The user picks another level: the memo runs again.
SetLogLevel(level) ==
  /\ logDone
  /\ level # logLevel
  /\ logLevel' = level
  /\ logFiltered' = filterByLevel(logContent, level)
  /\ UNCHANGED <<logContent, logDone>>
  /\ UNCHANGED logOthers

LogNext ==
  \/ RenderLog
  \/ \E l \in LogLevels : SetLogLevel(l)

\* The level a marker stands for and the level a selector value asks for.
LevelOfMarker(marker) ==
  CASE marker = "INFO" -> "INFO"
    [] marker = "WARNING" -> "WARN"
    [] marker = "error" -> "ERROR"
    [] marker = "CRITICAL" -> "ERROR"
    [] OTHER -> "NONE"

LevelOfSelector(level) ==
  CASE level = "info" -> "INFO"
    [] level = "warn" -> "WARN"
    [] level = "error" -> "ERROR"
    [] OTHER -> "ALL"

\* The lines at the places in keep, in the order of the content.
RECURSIVE LinesAt(_, _, _)
LinesAt(content, keep, i) ==
  IF i > Len(content) THEN <<>>
  ELSE (IF i \in keep THEN <<content[i]>> ELSE <<>>) \o LinesAt(content, keep, i + 1)

\* The nearest line at or before place i among the places in owners (0: none).
NearestOwner(owners, i) ==
  LET before == {j \in owners : j <= i}
  IN IF before = {} THEN 0 ELSE CHOOSE j \in before : \A k \in before : k <= j

Recognized(content) == {j \in 1..Len(content) : content[j].marker # ""}

EntryStarts(content) == {j \in 1..Len(content) : content[j].entryStart}

\* C3 as stated: filtering by a level X keeps a line exactly when the nearest
\* line at or before it that carries a level marker has level X (a line
\* before the first such line is dropped), so the output is the blocks owned
\* by the lines of level X, in input order.
KeptByOwningLevel(content, level) ==
  {i \in 1..Len(content) :
     LET o == NearestOwner(Recognized(content), i)
     IN o # 0 /\ LevelOfMarker(content[o].marker) = LevelOfSelector(level)}

C3_BlocksOfOwningLevel ==
  (logDone /\ logLevel # "all") =>
    logFiltered = LinesAt(logContent, KeptByOwningLevel(logContent, logLevel), 1)

\* C3 amended: a line without a level marker that starts a new entry (a step
\* marker, [CONFIG], a separator, a timestamp, a Python path) is dropped and
\* ends the block; a line is kept exactly when the nearest line at or before
\* it that carries a level marker or starts a new entry carries a marker of
\* level X.
KeptByOwningEntry(content, level) ==
  {i \in 1..Len(content) :
     LET o == NearestOwner(Recognized(content) \cup EntryStarts(content), i)
     IN /\ o # 0
        /\ content[o].marker # ""
        /\ LevelOfMarker(content[o].marker) = LevelOfSelector(level)}

C3_BlocksOfOwningEntry ==
  (logDone /\ logLevel # "all") =>
    logFiltered = LinesAt(logContent, KeptByOwningEntry(logContent, logLevel), 1)

\* C3's case: filtering by error, an error line keeps its continuation line
\* and loses the lines from a step marker on.
C3_Witness ==
  /\ logDone
  /\ logLevel = "error"
  /\ logContent = << [marker |-> "CRITICAL", entryStart |-> FALSE],
                     [marker |-> "", entryStart |-> FALSE],
                     [marker |-> "", entryStart |-> TRUE] >>
  /\ logFiltered = SubSeq(logContent, 1, 2)

(***************************************************************************)
(* response-parser: getErrorCode.                                          *)
(* A response body is what the parser reads of it: kind is what the value  *)
(* is; error, state and hasCode describe the fields error, state and code  *)
(* of an object ("absent": the object has no such field).                  *)
(***************************************************************************)
AbsentField == [kind |-> "absent", codeKind |-> "undefined", str |-> ""]

ErrorFields ==
  { AbsentField,
    [kind |-> "null",   codeKind |-> "undefined", str |-> ""],
    [kind |-> "string", codeKind |-> "undefined", str |-> "boom"],
    [kind |-> "object", codeKind |-> "undefined", str |-> ""],
    [kind |-> "object", codeKind |-> "number",    str |-> "404"],
    [kind |-> "object", codeKind |-> "string",    str |-> "NOT_FOUND"],
    [kind |-> "object", codeKind |-> "string",    str |-> "VALIDATION_ERROR"] }

StateFields ==
  { AbsentField,
    [kind |-> "number", codeKind |-> "undefined", str |-> "0"],
    [kind |-> "string", codeKind |-> "undefined", str |-> "success"],
    [kind |-> "string", codeKind |-> "undefined", str |-> "error"],
    [kind |-> "string", codeKind |-> "undefined", str |-> "fail"] }

Responses ==
  [kind : {"null", "undefined", "string"}, error : {AbsentField},
   state : {AbsentField}, hasCode : {FALSE}]
    \cup [kind : {"object"}, error : ErrorFields, state : StateFields,
          hasCode : BOOLEAN]

\* typeof value
TypeOf(kind) == IF kind = "null" THEN "object" ELSE kind

\* A string, or null.
Null == [isNull |-> TRUE, str |-> ""]
Str(s) == [isNull |-> FALSE, str |-> s]

isErrorResponse(r) ==
  /\ TypeOf(r.kind) = "object"
  /\ r.kind # "null"
  /\ r.error.kind # "absent"
  /\ TypeOf(r.error.kind) = "object"
  /\ r.error.kind # "null"
  /\ TypeOf(r.error.codeKind) = "string"

isLegacyResponse(r) ==
  /\ TypeOf(r.kind) = "object"
  /\ r.kind # "null"
  /\ r.state.kind # "absent"
  /\ r.hasCode
  /\ TypeOf(r.state.kind) = "string"

\* A test for the one state the legacy backend names its errors with.
isLegacyErrorResponse_StateError(r) == r.state.str = "error"

isLegacyErrorResponse(r) == r.state.str # "success"

getErrorCode(r) ==
  IF isErrorResponse(r) THEN Str(r.error.str)
  ELSE IF isLegacyResponse(r) /\ isLegacyErrorResponse(r) THEN Str("SERVER_ERROR")
  ELSE Null

RespInit ==
  /\ response \in Responses
  /\ errorCode = Null
  /\ parsed = FALSE

RespIdle ==
  /\ response = [kind |-> "undefined", error |-> AbsentField, state |-> AbsentField,
                 hasCode |-> FALSE]
  /\ errorCode = Null
  /\ parsed = FALSE

\* A caller reads the error code of a response body.
ReadErrorCode ==
  /\ ~parsed
  /\ parsed' = TRUE
  /\ errorCode' = getErrorCode(response)
  /\ UNCHANGED response
  /\ UNCHANGED respOthers

RespNext == ReadErrorCode

\* The envelopes as the interface describes them.
CurrentErrorEnvelope(r) ==
  r.kind = "object" /\ r.error.kind = "object" /\ r.error.codeKind = "string"

LegacyEnvelope(r) ==
  r.kind = "object" /\ r.hasCode /\ r.state.kind = "string"

\* {error: {code: "NOT_FOUND"}}
NotFoundBody ==
  [kind |-> "object", state |-> AbsentField, hasCode |-> FALSE,
   error |-> [kind |-> "object", codeKind |-> "string", str |-> "NOT_FOUND"]]

\* {state: "error", code: "400", message: "bad"}
LegacyErrorBody ==
  [kind |-> "object", error |-> AbsentField, hasCode |-> TRUE,
   state |-> [kind |-> "string", codeKind |-> "undefined", str |-> "error"]]

\* {id: 1, name: "x"}: a bare success payload
BarePayload ==
  [kind |-> "object", error |-> AbsentField, state |-> AbsentField, hasCode |-> FALSE]

\* C4: getErrorCode returns error.code for a current error envelope; else
\* "SERVER_ERROR" for a legacy envelope (state and code present, state a
\* string) whose state is not "success"; else null.  So NOT_FOUND for
\* {error:{code:"NOT_FOUND"}}, SERVER_ERROR for {state:"error",code:"400"},
\* null for a bare payload.
C4_ErrorCodeOfEnvelope ==
  parsed =>
    /\ errorCode =
         IF CurrentErrorEnvelope(response) THEN Str(response.error.str)
         ELSE IF LegacyEnvelope(response) /\ response.state.str # "success"
              THEN Str("SERVER_ERROR")
         ELSE Null
    /\ (response = NotFoundBody => errorCode = Str("NOT_FOUND"))
    /\ (response = LegacyErrorBody => errorCode = Str("SERVER_ERROR"))
    /\ (response = BarePayload => errorCode = Null)

\* C4's case: a legacy envelope whose state is neither "success" nor "error",
\* beside an error field that is no current envelope, read as SERVER_ERROR.
C4_Witness ==
  /\ parsed
  /\ response.state.str = "fail"
  /\ response.hasCode
  /\ response.error.codeKind = "number"
  /\ errorCode = Str("SERVER_ERROR")

(***************************************************************************)
(* useCommands: the query function pages a list of commands; a table       *)
(* wrapper (EndpointsDataTable) builds paginationInfo from the totals and  *)
(* hands the page to UnifiedDataTable.  The list is the commands left by   *)
(* the toolId filter, numbered 1..totalItems; the shipped list has 8.      *)
(* A parameter of 0 stands for one that is 0 or not given.                 *)
(***************************************************************************)
MaxItems == 25
MaxPage == 3
MaxPageSize == 10

Items(n) == [i \in 1..n |-> i]

\* Math.ceil(a / b) for a >= 0, b > 0
Ceil(a, b) == (a + b - 1) \div b

\* A start index that takes the page number for a 0-based index.
StartIndex_ZeroBased(page, pageSize) == page * pageSize

StartIndex(page, pageSize) == (page - 1) * pageSize

\* queryFn of useCommands
CommandsQuery(filteredCommands, page0, pageSize0) ==
  LET page == IF page0 = 0 THEN 1 ELSE page0
      pageSize == IF pageSize0 = 0 THEN DefaultPageSize ELSE pageSize0
      totalCount == Len(filteredCommands)
      startIndex == StartIndex(page, pageSize)
      endIndex == startIndex + pageSize
  IN [commands |-> Slice(filteredCommands, startIndex, endIndex),
      page |-> page,
      pageSize |-> pageSize,
      total |-> totalCount,
      totalPages |-> Ceil(totalCount, pageSize)]

\* paginationInfo of the table wrapper: built when a total is known.
WrapperPaginationInfo(totalCount, totalPages, pageSize) ==
  IF totalCount # 0
  THEN [present |-> TRUE,
        totalPages |-> IF totalPages # 0 THEN totalPages ELSE Ceil(totalCount, pageSize)]
  ELSE NoPaginationInfo

\* The rows the table shows for a response: data is the page, pagination is
\* {pageIndex: page - 1, pageSize}, nothing is sorted.
ShownRows(resp) ==
  TableRowModel(resp.commands,
                WrapperPaginationInfo(resp.total, resp.totalPages, resp.pageSize),
                "none",
                [pageIndex |-> resp.page - 1, pageSize |-> resp.pageSize])

NoResponse == [commands |-> <<>>, page |-> 0, pageSize |-> 0, total |-> 0, totalPages |-> 0]

ListInit ==
  /\ totalItems \in 0..MaxItems
  /\ paramPage \in 0..MaxPage
  /\ paramPageSize \in 0..MaxPageSize
  /\ commandsResponse = NoResponse
  /\ shownItems = <<>>
  /\ fetched = FALSE

ListIdle ==
  /\ totalItems = 0
  /\ paramPage = 0
  /\ paramPageSize = 0
  /\ commandsResponse = NoResponse
  /\ shownItems = <<>>
  /\ fetched = FALSE

\* The query resolves and the table renders its page.
FetchCommands ==
  /\ ~fetched
  /\ fetched' = TRUE
  /\ commandsResponse' = CommandsQuery(Items(totalItems), paramPage, paramPageSize)
  /\ shownItems' = ShownRows(commandsResponse')
  /\ UNCHANGED <<totalItems, paramPage, paramPageSize>>
  /\ UNCHANGED listOthers

\* The user goes to another page: the query runs with the new parameter.
GoToPage(p) ==
  /\ fetched
  /\ p # paramPage
  /\ paramPage' = p
  /\ commandsResponse' = CommandsQuery(Items(totalItems), p, paramPageSize)
  /\ shownItems' = ShownRows(commandsResponse')
  /\ UNCHANGED <<totalItems, paramPageSize, fetched>>
  /\ UNCHANGED listOthers

ListNext ==
  \/ FetchCommands
  \/ \E p \in 1..MaxPage : GoToPage(p)

\* C5: for N items asked with page p >= 1 and pageSize s >= 1, the response
\* reports total = N and totalPages = the least k with k * s >= N, and holds
\* the items (p-1)*s+1 .. min(p*s, N) in order (none past the last page),
\* which are the items the table shows; N = 25, p = 2, s = 10 gives
\* totalPages = 3 and the items 11..20.
C5_PageOfItems ==
  (fetched /\ paramPage >= 1 /\ paramPageSize >= 1) =>
    LET first == (paramPage - 1) * paramPageSize + 1
        last == Min(paramPage * paramPageSize, totalItems)
        expected == [i \in 1..(IF last >= first THEN last - first + 1 ELSE 0) |->
                       first + i - 1]
    IN /\ commandsResponse.total = totalItems
       /\ commandsResponse.totalPages * paramPageSize >= totalItems
       /\ (commandsResponse.totalPages - 1) * paramPageSize < totalItems
              \/ (totalItems = 0 /\ commandsResponse.totalPages = 0)
       /\ commandsResponse.commands = expected
       /\ shownItems = expected

\* C5's case: 25 items, page 2 of size 10.
C5_Witness ==
  /\ fetched
  /\ totalItems = 25 /\ paramPage = 2 /\ paramPageSize = 10
  /\ commandsResponse.totalPages = 3
  /\ shownItems = <<11, 12, 13, 14, 15, 16, 17, 18, 19, 20>>

(***************************************************************************)
(* useCreateCommand, useUpdateCommand, useDeleteCommand.                   *)
(* toasts and invalidated are what the callbacks of the last settled       *)
(* request showed and invalidated; staleQueries are the cached query keys  *)
(* invalidated and not yet fetched again.                                  *)
(***************************************************************************)
MutationOps == {"create", "update", "delete"}

\* error?.response?.data: the body of the failed response, undefined when the
\* error carries no response (a network error).
ErrorBodies ==
  { r \in Responses :
      \/ r.kind = "undefined"
      \/ r.kind = "object" /\ r.error.str \in {"", "NOT_FOUND"}
                           /\ r.state.str \in {"", "error", "success"} }

SuccessKey(op) ==
  CASE op = "create" -> "toast.command.create.success"
    [] op = "update" -> "toast.command.update.success"
    [] OTHER -> "toast.command.delete.success"

FallbackKey(op) ==
  CASE op = "create" -> "toast.command.create.error"
    [] op = "update" -> "toast.command.update.error"
    [] OTHER -> "toast.command.delete.error"

\* toastMessages.success(key): one success toast.
ToastSuccess(key) == [kind |-> "success", fromCode |-> FALSE, text |-> key]

\* toastMessages.errorFromCode(code, fallbackKey): one error toast, the
\* message of the code when there is one, the fallback message otherwise.
ToastErrorFromCode(code, fallbackKey) ==
  IF code.isNull THEN [kind |-> "error", fromCode |-> FALSE, text |-> fallbackKey]
  ELSE [kind |-> "error", fromCode |-> TRUE, text |-> code.str]

\* An update hook that invalidates the list alone.
InvalidatedOnSuccess_ListOnly(op) == {"commands"}

\* The query keys onSuccess invalidates.
InvalidatedOnSuccess(op) ==
  IF op = "update" THEN {"commands", "command"} ELSE {"commands"}

CmdInit ==
  /\ mutationStatus = "idle"
  /\ mutationOp \in MutationOps
  /\ toasts = <<>>
  /\ invalidated = {}
  /\ staleQueries = {}
  /\ mutationOutcome = "none"
  /\ errorData = BarePayload

CmdIdle ==
  /\ mutationStatus = "idle"
  /\ mutationOp = "create"
  /\ toasts = <<>>
  /\ invalidated = {}
  /\ staleQueries = {}
  /\ mutationOutcome = "none"
  /\ errorData = BarePayload

\* mutate(): the request of one of the three hooks is sent.
Mutate(op) ==
  /\ mutationStatus = "idle"
  /\ mutationStatus' = "pending"
  /\ mutationOp' = op
  /\ toasts' = <<>>
  /\ invalidated' = {}
  /\ mutationOutcome' = "none"
  /\ UNCHANGED <<staleQueries, errorData>>
  /\ UNCHANGED cmdOthers

\* The request succeeds: onSuccess.
MutationSuccess ==
  /\ mutationStatus = "pending"
  /\ mutationStatus' = "idle"
  /\ mutationOutcome' = "success"
  /\ toasts' = <<ToastSuccess(SuccessKey(mutationOp))>>
  /\ invalidated' = InvalidatedOnSuccess(mutationOp)
  /\ staleQueries' = staleQueries \cup InvalidatedOnSuccess(mutationOp)
  /\ UNCHANGED <<mutationOp, errorData>>
  /\ UNCHANGED cmdOthers

\* The request fails: onError.
MutationError(body) ==
  /\ mutationStatus = "pending"
  /\ mutationStatus' = "idle"
  /\ mutationOutcome' = "error"
  /\ errorData' = body
  /\ toasts' = <<ToastErrorFromCode(getErrorCode(body), FallbackKey(mutationOp))>>
  /\ invalidated' = {}
  /\ UNCHANGED <<mutationOp, staleQueries>>
  /\ UNCHANGED cmdOthers

\* A list that depends on an invalidated query key fetches it again.
RefetchQuery(key) ==
  /\ key \in staleQueries
  /\ staleQueries' = staleQueries \ {key}
  /\ UNCHANGED <<mutationStatus, mutationOp, toasts, invalidated, mutationOutcome,
                 errorData>>
  /\ UNCHANGED cmdOthers

CmdNext ==
  \/ \E op \in MutationOps : Mutate(op)
  \/ MutationSuccess
  \/ \E body \in ErrorBodies : MutationError(body)
  \/ \E key \in {"commands", "command"} : RefetchQuery(key)

\* C10: a successful create, update or delete shows the success toast and
\* invalidates "commands" (update: "command" too); a failed one shows exactly
\* one error toast, its message that of getErrorCode(error.response.data) or
\* the operation's fallback message when that is null, and invalidates
\* nothing.
C10_MutationCallbacks ==
  /\ (mutationOutcome = "success" =>
        /\ toasts = <<[kind |-> "success", fromCode |-> FALSE,
                       text |-> SuccessKey(mutationOp)]>>
        /\ "commands" \in invalidated
        /\ ("command" \in invalidated <=> mutationOp = "update")
        /\ invalidated \subseteq {"commands", "command"})
  /\ (mutationOutcome = "error" =>
        /\ Len(toasts) = 1
        /\ toasts[1].kind = "error"
        /\ toasts[1] =
             IF CurrentErrorEnvelope(errorData)
             THEN [kind |-> "error", fromCode |-> TRUE, text |-> errorData.error.str]
             ELSE IF LegacyEnvelope(errorData) /\ errorData.state.str # "success"
             THEN [kind |-> "error", fromCode |-> TRUE, text |-> "SERVER_ERROR"]
             ELSE [kind |-> "error", fromCode |-> FALSE, text |-> FallbackKey(mutationOp)]
        /\ invalidated = {})

\* C10's case: an update failed with no response body after an earlier
\* success whose invalidation is still pending, and showed the fallback.
C10_Witness ==
  /\ mutationOutcome = "error"
  /\ mutationOp = "update"
  /\ errorData.kind = "undefined"
  /\ toasts = <<[kind |-> "error", fromCode |-> FALSE,
                 text |-> "toast.command.update.error"]>>
  /\ staleQueries = {"commands", "command"}

(***************************************************************************)
(* DashboardDataTable and QuickScanDialog: the requests a user action      *)
(* starts and what the handler does when the request settles.              *)
(* reqToasts and reqConsole are what the handler of the last settled       *)
(* request showed (toasts, in order) and logged (console.error calls);     *)
(* reqUnhandled tells whether its rejection left the handler uncaught.     *)
(***************************************************************************)
MaxRequests == 3

RequestHandlers ==
  {"handleViewProgress", "confirmDelete", "confirmStop", "loadEngines", "handleSubmit"}

NoHandler == "none"

\* The catch clause of each handler: the toasts it shows and the number of
\* console.error calls it makes.
CatchToasts(h) ==
  IF h = "handleViewProgress" THEN <<>> ELSE <<"error">>

CatchConsole(h) ==
  IF h \in {"handleViewProgress", "confirmDelete", "confirmStop"} THEN 1 ELSE 0

\* Every handler awaits its request inside try/catch, or chains .catch().
HasCatch(h) == h \in RequestHandlers

\* The toasts of the success path.
SuccessToasts(h) ==
  IF h \in {"confirmDelete", "confirmStop", "handleSubmit"} THEN <<"success">> ELSE <<>>

ReqInit ==
  /\ reqHandler = NoHandler
  /\ reqStatus = "idle"
  /\ reqOutcome = "none"
  /\ reqToasts = <<>>
  /\ reqConsole = 0
  /\ reqUnhandled = FALSE
  /\ reqCount = 0
  /\ scanToDelete = FALSE
  /\ scanToStop = FALSE
  /\ progressDialogOpen = FALSE
  /\ enginesLoaded = FALSE

ReqIdle ==
  /\ reqHandler = NoHandler
  /\ reqStatus = "idle"
  /\ reqOutcome = "none"
  /\ reqToasts = <<>>
  /\ reqConsole = 0
  /\ reqUnhandled = FALSE
  /\ reqCount = 0
  /\ scanToDelete = FALSE
  /\ scanToStop = FALSE
  /\ progressDialogOpen = FALSE
  /\ enginesLoaded = FALSE

\* handleDelete / handleStop: a row action picks the scan and opens the
\* confirmation dialog.
handleDelete ==
  /\ reqStatus = "idle"
  /\ ~scanToDelete
  /\ scanToDelete' = TRUE
  /\ UNCHANGED <<reqHandler, reqStatus, reqOutcome, reqToasts, reqConsole, reqUnhandled,
                 reqCount, scanToStop, progressDialogOpen, enginesLoaded>>
  /\ UNCHANGED reqOthers

handleStop ==
  /\ reqStatus = "idle"
  /\ ~scanToStop
  /\ scanToStop' = TRUE
  /\ UNCHANGED <<reqHandler, reqStatus, reqOutcome, reqToasts, reqConsole, reqUnhandled,
                 reqCount, scanToDelete, progressDialogOpen, enginesLoaded>>
  /\ UNCHANGED reqOthers

\* Whether the handler sends its request: confirmDelete and confirmStop
\* return early without a scan, the engines effect loads only while the
\* list is empty.
SendsRequest(h) ==
  CASE h = "confirmDelete" -> scanToDelete
    [] h = "confirmStop" -> scanToStop
    [] h = "loadEngines" -> ~enginesLoaded
    [] OTHER -> TRUE

\* A user action calls the handler and the request is sent.
StartRequest(h) ==
  /\ reqStatus = "idle"
  /\ reqCount < MaxRequests
  /\ SendsRequest(h)
  /\ reqHandler' = h
  /\ reqStatus' = "pending"
  /\ reqOutcome' = "none"
  /\ reqToasts' = <<>>
  /\ reqConsole' = 0
  /\ reqUnhandled' = FALSE
  /\ reqCount' = reqCount + 1
  /\ UNCHANGED <<scanToDelete, scanToStop, progressDialogOpen, enginesLoaded>>
  /\ UNCHANGED reqOthers

\* The finally clause: the picked scan is forgotten.
AfterSettle ==
  /\ scanToDelete' = (scanToDelete /\ reqHandler # "confirmDelete")
  /\ scanToStop' = (scanToStop /\ reqHandler # "confirmStop")

\* The request resolves: the rest of the try block.
RequestResolves ==
  /\ reqStatus = "pending"
  /\ reqStatus' = "idle"
  /\ reqOutcome' = "resolved"
  /\ reqToasts' = SuccessToasts(reqHandler)
  /\ reqConsole' = 0
  /\ reqUnhandled' = FALSE
  /\ progressDialogOpen' = (progressDialogOpen \/ reqHandler = "handleViewProgress")
  /\ enginesLoaded' = (enginesLoaded \/ reqHandler = "loadEngines")
  /\ AfterSettle
  /\ UNCHANGED <<reqHandler, reqCount>>
  /\ UNCHANGED reqOthers

\* The request rejects: the catch clause.
RequestRejects ==
  /\ reqStatus = "pending"
  /\ reqStatus' = "idle"
  /\ reqOutcome' = "rejected"
  /\ reqToasts' = (IF HasCatch(reqHandler) THEN CatchToasts(reqHandler) ELSE <<>>)
  /\ reqConsole' = (IF HasCatch(reqHandler) THEN CatchConsole(reqHandler) ELSE 0)
  /\ reqUnhandled' = ~HasCatch(reqHandler)
  /\ AfterSettle
  /\ UNCHANGED <<reqHandler, reqCount, progressDialogOpen, enginesLoaded>>
  /\ UNCHANGED reqOthers

\* The progress dialog is closed.
CloseProgressDialog ==
  /\ progressDialogOpen
  /\ progressDialogOpen' = FALSE
  /\ UNCHANGED <<reqHandler, reqStatus, reqOutcome, reqToasts, reqConsole, reqUnhandled,
                 reqCount, scanToDelete, scanToStop, enginesLoaded>>
  /\ UNCHANGED reqOthers

ReqNext ==
  \/ handleDelete
  \/ handleStop
  \/ \E h \in RequestHandlers : StartRequest(h)
  \/ RequestResolves
  \/ RequestRejects
  \/ CloseProgressDialog

\* C11: a request that failed was caught by its handler and the handler
\* showed an error notification: it neither let the rejection escape nor
\* answered it with a console log alone.
C11_FailuresNotified ==
  reqOutcome = "rejected" =>
    /\ ~reqUnhandled
    /\ \E i \in 1..Len(reqToasts) : reqToasts[i] = "error"

(***************************************************************************)
(* apiClient.interceptors.response: the error handler.                     *)
(* An error is what the handler reads of it: whether it is an Axios error, *)
(* the status of its response (0: it carries no response) and the url of   *)
(* its config (<<>>: none, read as '').  A url is a sequence of pieces of  *)
(* text, so that includes() is a search for a run of pieces.               *)
(***************************************************************************)
MaxUrlPieces == 3

UrlPieces == {"/api", "/auth", "/login", "/logout", "/me", "trics", "/scans"}

Urls == UNION {[1..n -> UrlPieces] : n \in 0..MaxUrlPieces}

HttpStatuses == {0, 401, 403, 500}

InterceptedErrors == [isAxiosError : BOOLEAN, status : HttpStatuses, url : Urls]

\* String.prototype.includes
Includes(str, needle) ==
  \E i \in 0..(Len(str) - Len(needle)) :
    \A j \in 1..Len(needle) : str[i + j] = needle[j]

\* An exclusion list without the session endpoint.
isAuthApi_LoginLogout(url) ==
  \/ Includes(url, <<"/auth", "/login">>)
  \/ Includes(url, <<"/auth", "/logout">>)

isAuthApi(url) ==
  \/ Includes(url, <<"/auth", "/login">>)
  \/ Includes(url, <<"/auth", "/logout">>)
  \/ Includes(url, <<"/auth", "/me">>)

\* The pages the browser may be on.
CurrentPage == "/dashboard"
LoginPage == "/login"

IcInit ==
  /\ icError \in InterceptedErrors
  /\ hasWindow \in BOOLEAN
  /\ locationHref = CurrentPage
  /\ icRejected = FALSE
  /\ icDone = FALSE

IcIdle ==
  /\ icError = [isAxiosError |-> FALSE, status |-> 0, url |-> <<>>]
  /\ hasWindow = FALSE
  /\ locationHref = CurrentPage
  /\ icRejected = FALSE
  /\ icDone = FALSE

\* The error handler of the response interceptor.
ResponseErrorInterceptor ==
  /\ ~icDone
  /\ icDone' = TRUE
  /\ locationHref' =
       IF /\ icError.isAxiosError /\ icError.status = 401
          /\ ~isAuthApi(icError.url) /\ hasWindow
       THEN LoginPage ELSE locationHref
  /\ icRejected' = TRUE
  /\ UNCHANGED <<icError, hasWindow>>
  /\ UNCHANGED icOthers

IcNext == ResponseErrorInterceptor

\* The url holds the text of one of the three auth endpoints.
ContainsAuthEndpoint(url) ==
  \E i \in 1..(Len(url) - 1) :
    url[i] = "/auth" /\ url[i + 1] \in {"/login", "/logout", "/me"}

\* C12: in the browser, the interceptor sends the page to the login route
\* exactly when the failed response has status 401 and the request url holds
\* none of /auth/login, /auth/logout, /auth/me; and the error is rejected to
\* the caller whether it redirects or not.
C12_RedirectOn401 ==
  icDone =>
    /\ icRejected
    /\ (hasWindow =>
          ((locationHref = LoginPage) <=>
             (icError.isAxiosError /\ icError.status = 401
                /\ ~ContainsAuthEndpoint(icError.url))))
    /\ (~hasWindow => locationHref = CurrentPage)

\* C12's case: a 401 on a url that holds /auth/me inside a longer path is
\* not redirected, and is rejected.
C12_Witness ==
  /\ icDone
  /\ hasWindow
  /\ icError.isAxiosError
  /\ icError.status = 401
  /\ icError.url = <<"/api", "/auth", "/me">>
  /\ locationHref = CurrentPage
  /\ icRejected

(***************************************************************************)
(* ScanOverview: the scan and the polling of its logs.                     *)
(* scanStatus is the status of the scan useScan returned ("unloaded": no   *)
(* scan yet).  logsTimer is the interval of the timer useScanLogs holds    *)
(* (0: no timer); pollLog holds, for every poll issued, the status and the *)
(* mounting it was issued under.                                           *)
(***************************************************************************)
MaxPolls == 4

PollingIntervalMs == 3000

ScanStatuses == {"cancelled", "completed", "failed", "initiated", "running"}

Unloaded == "unloaded"

\* A test that takes a scan for running only once it has started.
isRunning_StartedOnly(status) == status = "running"

\* scan?.status === 'running' || scan?.status === 'initiated'
isRunning(status) == status = "running" \/ status = "initiated"

\* enabled: !!scan
LogsEnabled(status) == status # Unloaded

\* pollingInterval: isRunning ? 3000 : 0
pollingInterval(status) == IF isRunning(status) THEN PollingIntervalMs ELSE 0

\* useScanLogs: the timer it holds for its options while the component is
\* mounted: one of the given interval when enabled and the interval is
\* positive, none otherwise.
UseScanLogsTimer(enabled, interval, mounted) ==
  IF mounted /\ enabled /\ interval > 0 THEN interval ELSE 0

PollInit ==
  /\ scanStatus = Unloaded
  /\ overviewMounted = TRUE
  /\ logsTimer = 0
  /\ pollCount = 0
  /\ pollLog = {}
  /\ initialFetches = 0

PollIdle ==
  /\ scanStatus = Unloaded
  /\ overviewMounted = FALSE
  /\ logsTimer = 0
  /\ pollCount = 0
  /\ pollLog = {}
  /\ initialFetches = 0

\* useScan delivers the scan, or the scan with another status: ScanOverview
\* renders and useScanLogs takes the new options.  The logs are fetched once
\* when the hook becomes enabled.
ScanData(status) ==
  /\ overviewMounted
  /\ status # scanStatus
  /\ scanStatus' = status
  /\ logsTimer' = UseScanLogsTimer(LogsEnabled(status), pollingInterval(status), TRUE)
  /\ initialFetches' = initialFetches + (IF scanStatus = Unloaded THEN 1 ELSE 0)
  /\ UNCHANGED <<overviewMounted, pollCount, pollLog>>
  /\ UNCHANGED pollOthers

\* The timer fires: one poll of the logs.
PollTick ==
  /\ logsTimer > 0
  /\ pollCount < MaxPolls
  /\ pollCount' = pollCount + 1
  /\ pollLog' = pollLog \cup {[status |-> scanStatus, mounted |-> overviewMounted]}
  /\ UNCHANGED <<scanStatus, overviewMounted, logsTimer, initialFetches>>
  /\ UNCHANGED pollOthers

\* ScanOverview unmounts: the hook's cleanup clears the timer.
UnmountOverview ==
  /\ overviewMounted
  /\ overviewMounted' = FALSE
  /\ logsTimer' = UseScanLogsTimer(LogsEnabled(scanStatus), pollingInterval(scanStatus), FALSE)
  /\ UNCHANGED <<scanStatus, pollCount, pollLog, initialFetches>>
  /\ UNCHANGED pollOthers

PollNext ==
  \/ \E status \in ScanStatuses : ScanData(status)
  \/ PollTick
  \/ UnmountOverview

\* C13: the log polling timer runs, at 3000 ms, exactly while the overview is
\* mounted and the scan's status is running or initiated; with a status of
\* completed, failed or cancelled, before the scan is loaded and after the
\* unmount there is no timer; and every poll was issued while the overview
\* was mounted with a running or initiated scan.
C13_PollsWhileRunning ==
  /\ logsTimer =
       IF overviewMounted /\ scanStatus \in {"running", "initiated"} THEN 3000 ELSE 0
  /\ \A p \in pollLog : p.mounted /\ p.status \in {"running", "initiated"}

\* C13's case: the scan was polled while initiated and while running, then
\* completed, and the timer is gone.
C13_Witness ==
  /\ scanStatus = "completed"
  /\ overviewMounted
  /\ logsTimer = 0
  /\ pollCount = 3
  /\ pollLog = {[status |-> "initiated", mounted |-> TRUE],
                [status |-> "running", mounted |-> TRUE]}

(***************************************************************************)
(* AnsiLogViewer: the scroll position of the container.                    *)
(* Lengths are in px.  lastScrollDistance is the distance to the bottom    *)
(* the last scroll event saw (NoScrollYet before the first one);           *)
(* lastScrollEvent tells what the last step was.                           *)
(***************************************************************************)
MaxScrollHeight == 260

BottomTolerance == 30

\* The height of the container and the heights a batch of new lines adds.
ClientHeight == 100
ContentSteps == {10, 40}

\* The distances to the bottom a user scrolls to.
ScrollDistances == {0, 29, 30, 31, 80}

NoScrollYet == 0 - 1

\* The largest scrollTop the browser allows.
MaxScrollTop(height) == IF height > ClientHeight THEN height - ClientHeight ELSE 0

\* scrollHeight - scrollTop - clientHeight
DistanceToBottom(height, top) == MaxScrollTop(height) - top

\* A tolerance that counts 30px itself as the bottom.
nearBottom_Inclusive(distance) == distance <= BottomTolerance

\* scrollHeight - scrollTop - clientHeight < 30
nearBottom(distance) == distance < BottomTolerance

ScrInit ==
  /\ scrollHeight \in {50, 150}
  /\ scrollTop = 0
  /\ isAtBottomRef = TRUE
  /\ lastScrollDistance = NoScrollYet
  /\ lastScrollEvent = "mount"

ScrIdle ==
  /\ scrollHeight = 0
  /\ scrollTop = 0
  /\ isAtBottomRef = TRUE
  /\ lastScrollDistance = NoScrollYet
  /\ lastScrollEvent = "mount"

\* The user scrolls the container: handleScroll.
handleScroll(d) ==
  /\ d <= MaxScrollTop(scrollHeight)
  /\ MaxScrollTop(scrollHeight) - d # scrollTop
  /\ scrollTop' = MaxScrollTop(scrollHeight) - d
  /\ isAtBottomRef' = nearBottom(DistanceToBottom(scrollHeight, scrollTop'))
  /\ lastScrollDistance' = DistanceToBottom(scrollHeight, scrollTop')
  /\ lastScrollEvent' = "scroll"
  /\ UNCHANGED scrollHeight
  /\ UNCHANGED scrOthers

\* New content is rendered (htmlContent changes) and the effect runs: it sets
\* scrollTop to scrollHeight, which the browser clamps, when isAtBottomRef
\* holds; the scroll event of that move runs handleScroll.
ContentArrives(step) ==
  /\ scrollHeight + step <= MaxScrollHeight
  /\ scrollHeight' = scrollHeight + step
  /\ LET moves == isAtBottomRef /\ MaxScrollTop(scrollHeight') # scrollTop
     IN /\ scrollTop' = (IF isAtBottomRef THEN MaxScrollTop(scrollHeight') ELSE scrollTop)
        /\ isAtBottomRef' =
             (IF moves THEN nearBottom(DistanceToBottom(scrollHeight', scrollTop'))
              ELSE isAtBottomRef)
        /\ lastScrollDistance' =
             (IF moves THEN DistanceToBottom(scrollHeight', scrollTop')
              ELSE lastScrollDistance)
  /\ lastScrollEvent' = "content"
  /\ UNCHANGED scrOthers

ScrNext ==
  \/ \E d \in ScrollDistances : handleScroll(d)
  \/ \E step \in ContentSteps : ContentArrives(step)

\* C14: when new content arrives, the view is moved to the bottom if the last
\* scroll event saw the viewport less than 30px from the bottom, or there
\* has been no scroll event; otherwise the view stays where it is.
C14_AutoScrollNearBottom ==
  [][scrollHeight' # scrollHeight =>
       IF lastScrollDistance = NoScrollYet \/ lastScrollDistance < 30
       THEN scrollTop' = MaxScrollTop(scrollHeight')
       ELSE scrollTop' = scrollTop]_vars

\* C14's case: content arrived after the user had scrolled to exactly 30px
\* above the bottom, and the view was left there.
C14_Witness ==
  /\ lastScrollEvent = "content"
  /\ lastScrollDistance = 30
  /\ scrollTop < MaxScrollTop(scrollHeight)
  /\ ~isAtBottomRef

(***************************************************************************)
(* UnifiedDataTable: the auto column sizing effect.                        *)
(* sizingRows is validData.length and sizingColumns the number of columns  *)
(* that have an id (the widths calculateColumnWidths returns have one key  *)
(* per such column).  columnSizing tells who wrote the state last and from *)
(* what; calcRuns counts the calls of calculateColumnWidths and            *)
(* calcResults those that returned a non-empty result.                     *)
(***************************************************************************)
MaxSizingRows == 2
MaxSizingColumns == 2
MaxCalcRuns == 3
MaxResizeWidth == 2

NoSizing == [by |-> "none", rows |-> 0, columns |-> 0, width |-> 0]

\* The result of calculateColumnWidths as the effect stores it.
CalculatedSizing(rows, columns) ==
  [by |-> "auto", rows |-> rows, columns |-> columns, width |-> 0]

\* An effect that forgets it has calculated already.
skipAutoSizing_NoFlag(enabled, calculated, rows) == ~enabled \/ rows = 0

\* !enableAutoColumnSizing || autoSizingCalculated || validData.length === 0
skipAutoSizing(enabled, calculated, rows) == ~enabled \/ calculated \/ rows = 0

\* The effect, run after a render in which one of its dependencies changed:
\* sizing is columnSizing as the step's handler left it.
AutoSizingEffect(rows, columns, sizing) ==
  IF skipAutoSizing(enableAutoColumnSizing, autoSizingCalculated, rows)
       \/ calcRuns >= MaxCalcRuns
  THEN /\ columnSizing' = sizing
       /\ UNCHANGED <<autoSizingCalculated, calcRuns, calcResults>>
  ELSE /\ calcRuns' = calcRuns + 1
       /\ IF columns > 0
          THEN /\ columnSizing' = CalculatedSizing(rows, columns)
               /\ autoSizingCalculated' = TRUE
               /\ calcResults' = calcResults + 1
          ELSE /\ columnSizing' = sizing
               /\ UNCHANGED <<autoSizingCalculated, calcResults>>

SizInit ==
  /\ enableAutoColumnSizing \in BOOLEAN
  /\ autoSizingCalculated = FALSE
  /\ sizingRows = 0
  /\ sizingColumns \in 0..MaxSizingColumns
  /\ columnSizing = NoSizing
  /\ calcRuns = 0
  /\ calcResults = 0

SizIdle ==
  /\ enableAutoColumnSizing = FALSE
  /\ autoSizingCalculated = FALSE
  /\ sizingRows = 0
  /\ sizingColumns = 0
  /\ columnSizing = NoSizing
  /\ calcRuns = 0
  /\ calcResults = 0

\* The caller passes other data: validData changes and the effect runs.
SizingDataChange(rows) ==
  /\ rows # sizingRows
  /\ sizingRows' = rows
  /\ UNCHANGED <<enableAutoColumnSizing, sizingColumns>>
  /\ AutoSizingEffect(rows, sizingColumns, columnSizing)
  /\ UNCHANGED sizOthers

\* The caller passes other columns: the effect runs.
SizingColumnsChange(columns) ==
  /\ columns # sizingColumns
  /\ sizingColumns' = columns
  /\ UNCHANGED <<enableAutoColumnSizing, sizingRows>>
  /\ AutoSizingEffect(sizingRows, columns, columnSizing)
  /\ UNCHANGED sizOthers

\* The user drags a column border: onColumnSizingChange (setColumnSizing).
\* columnSizing is no dependency of the effect, which does not run.
UserResizeColumn(width) ==
  /\ sizingColumns > 0
  /\ columnSizing' = [by |-> "user", rows |-> sizingRows, columns |-> sizingColumns,
                      width |-> width]
  /\ columnSizing' # columnSizing
  /\ UNCHANGED <<enableAutoColumnSizing, autoSizingCalculated, sizingRows, sizingColumns,
                 calcRuns, calcResults>>
  /\ UNCHANGED sizOthers

SizNext ==
  \/ \E rows \in 0..MaxSizingRows : SizingDataChange(rows)
  \/ \E columns \in 0..MaxSizingColumns : SizingColumnsChange(columns)
  \/ \E width \in 1..MaxResizeWidth : UserResizeColumn(width)

\* C15: the widths are calculated with a non-empty result at most once, never
\* while there are no valid rows and never without enableAutoColumnSizing;
\* once they have been, no step calculates again and columnSizing changes
\* only by the user's resizing.
C15_AutoSizedOnce ==
  /\ [](calcResults <= 1 /\ (calcResults = 1 <=> autoSizingCalculated))
  /\ [][/\ (sizingRows' = 0 \/ ~enableAutoColumnSizing) => calcRuns' = calcRuns
        /\ calcResults = 1 =>
             /\ calcRuns' = calcRuns
             /\ (columnSizing' # columnSizing => columnSizing'.by = "user")]_vars

\* C15's case: the widths were calculated once, the user then resized a
\* column, and data and columns have changed since without the widths of the
\* user being overwritten.
C15_Witness ==
  /\ calcResults = 1
  /\ calcRuns = 1
  /\ columnSizing.by = "user"
  /\ columnSizing.rows # sizingRows
  /\ columnSizing.columns # sizingColumns
  /\ sizingRows > 0 /\ sizingColumns > 0

(***************************************************************************)
(* calculateColumnWidths, for one column of the table.                     *)
(* A length is a number of half pixels (measureText returns fractions), so *)
(* that Math.ceil has something to round.  A cell is the width of the text *)
(* measured for its value, or SkippedCell for a value that is not measured *)
(* (null, undefined, an object).  A size of 0 stands for one not given.    *)
(***************************************************************************)
MaxWidthRows == 3
MaxSampleRowsOption == 2

DefaultMaxSampleRows == 100

\* The number of units in a pixel.
PxUnits == 2

cellPadding == 32 * PxUnits

SkippedCell == 0 - 1
CellWidths == {SkippedCell, 20, 61, 100}
HeaderWidths == {10, 41}
WidthData == UNION {[1..n -> CellWidths] : n \in 0..MaxWidthRows}

WidthColumns ==
  [hasId : BOOLEAN, enableAutoSize : BOOLEAN, size : {0, 90},
   minSize : {0, 100, 200}, maxSize : {0, 120, 121, 240}]

\* maxSampleRows: OptionNotPassed when the caller leaves it out.
OptionNotPassed == 0 - 1
SampleRowsOptions == {OptionNotPassed} \cup (1..MaxSampleRowsOption)

NoWidth == 0 - 1

\* Math.ceil on a number of half pixels.
MathCeil(x) == ((x + PxUnits - 1) \div PxUnits) * PxUnits

\* A sample that takes every row.
SampleData_AllRows(rows, option) == rows

\* data.slice(0, maxSampleRows)
SampleData(rows, option) ==
  Slice(rows, 0, IF option = OptionNotPassed THEN DefaultMaxSampleRows ELSE option)

\* The loop over the sample: maxWidth after the rows left.
RECURSIVE MeasureRows(_, _)
MeasureRows(rows, maxWidth) ==
  IF rows = <<>> THEN maxWidth
  ELSE MeasureRows(Tail(rows),
                   IF Head(rows) = SkippedCell THEN maxWidth
                   ELSE Max(maxWidth, Head(rows) + cellPadding))

\* The entry of the column in the widths calculateColumnWidths returns.
calculateColumnWidths(column, rows, header, option) ==
  IF ~column.hasId THEN NoWidth
  ELSE IF ~column.enableAutoSize
       THEN (IF column.size # 0 THEN column.size ELSE NoWidth)
  ELSE LET measured == MeasureRows(SampleData(rows, option), header + cellPadding)
           atLeast == IF column.minSize # 0 THEN Max(measured, column.minSize) ELSE measured
           atMost == IF column.maxSize # 0 THEN Min(atLeast, column.maxSize) ELSE atLeast
       IN MathCeil(atMost)

WidInit ==
  /\ widthColumn \in WidthColumns
  /\ widthData \in WidthData
  /\ headerWidth \in HeaderWidths
  /\ sampleRowsOption \in SampleRowsOptions
  /\ widthResult = NoWidth
  /\ widthDone = FALSE

WidIdle ==
  /\ widthColumn = [hasId |-> FALSE, enableAutoSize |-> TRUE, size |-> 0,
                    minSize |-> 0, maxSize |-> 0]
  /\ widthData = <<>>
  /\ headerWidth = 10
  /\ sampleRowsOption = OptionNotPassed
  /\ widthResult = NoWidth
  /\ widthDone = FALSE

\* A caller calculates the widths.
CalculateWidths ==
  /\ ~widthDone
  /\ widthDone' = TRUE
  /\ widthResult' = calculateColumnWidths(widthColumn, widthData, headerWidth,
                                          sampleRowsOption)
  /\ UNCHANGED <<widthColumn, widthData, headerWidth, sampleRowsOption>>
  /\ UNCHANGED widOthers

WidNext == CalculateWidths

\* The rows the calculation looks at, and the widest of header and sampled
\* cells, padding included.
SampleCap == IF sampleRowsOption = OptionNotPassed THEN 100 ELSE sampleRowsOption

SampledCells ==
  {widthData[i] : i \in {j \in 1..Len(widthData) : j <= SampleCap}} \ {SkippedCell}

WidestContent ==
  LET all == {headerWidth + 64} \cup {c + 64 : c \in SampledCells}
  IN CHOOSE w \in all : \A v \in all : v <= w

\* The least whole number of pixels that is not below x.
WholePixels(x) == CHOOSE w \in x..(x + 1) : w % 2 = 0

ClampedContent ==
  LET lo == IF widthColumn.minSize # 0 /\ widthColumn.minSize > WidestContent
            THEN widthColumn.minSize ELSE WidestContent
  IN IF widthColumn.maxSize # 0 /\ widthColumn.maxSize < lo THEN widthColumn.maxSize ELSE lo

AutoSized == widthDone /\ widthColumn.hasId /\ widthColumn.enableAutoSize

BothSizesGiven ==
  /\ widthColumn.minSize # 0 /\ widthColumn.maxSize # 0
  /\ widthColumn.minSize <= widthColumn.maxSize

\* C16 as stated: the width of an auto-sized column is the ceiling of the
\* widest of header and sampled cells (padding included) clamped to minSize
\* and maxSize, it lies between minSize and maxSize whenever both are given
\* with minSize <= maxSize, and it depends on no row past the sample cap.
C16_WidthClamped ==
  AutoSized =>
    /\ widthResult = WholePixels(ClampedContent)
    /\ widthResult = calculateColumnWidths(widthColumn,
                       SubSeq(widthData, 1, Min(SampleCap, Len(widthData))),
                       headerWidth, sampleRowsOption)
    /\ (BothSizesGiven =>
          widthColumn.minSize <= widthResult /\ widthResult <= widthColumn.maxSize)

\* What does hold of the width: the statement above with the upper bound
\* taken for a maxSize that is a whole number of pixels; for a fractional
\* maxSize the width is at most the ceiling of maxSize.
WidthClampedWholeMax ==
  AutoSized =>
    /\ widthResult = WholePixels(ClampedContent)
    /\ widthResult = calculateColumnWidths(widthColumn,
                       SubSeq(widthData, 1, Min(SampleCap, Len(widthData))),
                       headerWidth, sampleRowsOption)
    /\ (BothSizesGiven =>
          /\ widthColumn.minSize <= widthResult
          /\ widthResult <= WholePixels(widthColumn.maxSize)
          /\ (widthColumn.maxSize % 2 = 0 => widthResult <= widthColumn.maxSize))

\* C16's case: a wide cell past the sample cap is not measured, and the
\* content measured is narrower than minSize, which the width takes.
C16_Witness ==
  /\ AutoSized
  /\ sampleRowsOption = 1
  /\ widthData = <<20, 100>>
  /\ headerWidth = 10
  /\ widthColumn.minSize = 100 /\ widthColumn.maxSize = 240
  /\ widthResult = 100

(***************************************************************************)
(* response-parser: parseResponse.                                         *)
(* parseInput is the response as getErrorCode reads it; parseData is its   *)
(* data field ("absent", "null" or "payload").  The result is null, the    *)
(* data of the response or the response itself.                            *)
(***************************************************************************)
DataFields == {"absent", "null", "payload"}

ReturnsNull == "null"
ReturnsUndefined == "undefined"
ReturnsData == "response.data"
ReturnsResponse == "response"

\* A return of response.data as it is.
LegacyData_AsIs(d) ==
  CASE d = "absent" -> ReturnsUndefined
    [] d = "null" -> ReturnsNull
    [] OTHER -> ReturnsData

\* response.data ?? null
LegacyData(d) == IF d \in {"absent", "null"} THEN ReturnsNull ELSE ReturnsData

parseResponse(r, d) ==
  IF r.kind = "null" \/ r.kind = "undefined" THEN ReturnsNull
  ELSE IF isErrorResponse(r) THEN ReturnsNull
  ELSE IF isLegacyResponse(r)
       THEN (IF isLegacyErrorResponse(r) THEN ReturnsNull ELSE LegacyData(d))
  ELSE ReturnsResponse

PrsInit ==
  /\ parseInput \in Responses
  /\ parseData \in (IF parseInput.kind = "object" THEN DataFields ELSE {"absent"})
  /\ parseResult = ReturnsNull
  /\ parseDone = FALSE

PrsIdle ==
  /\ parseInput = [kind |-> "undefined", error |-> AbsentField, state |-> AbsentField,
                   hasCode |-> FALSE]
  /\ parseData = "absent"
  /\ parseResult = ReturnsNull
  /\ parseDone = FALSE

\* A caller parses a response.
ParseResponse ==
  /\ ~parseDone
  /\ parseDone' = TRUE
  /\ parseResult' = parseResponse(parseInput, parseData)
  /\ UNCHANGED <<parseInput, parseData>>
  /\ UNCHANGED prsOthers

PrsNext == ParseResponse

\* The data of a legacy envelope, null when it has none.
DataOrNull == IF parseData = "payload" THEN ReturnsData ELSE ReturnsNull

\* C17 as stated, each case by itself: a legacy envelope with state
\* "success" gives its data (null when absent), a legacy envelope with
\* another state gives null, a current error envelope and null/undefined
\* give null, every other response is returned as it is.
C17_ParseResponseCases ==
  parseDone =>
    /\ (LegacyEnvelope(parseInput) /\ parseInput.state.str = "success"
          => parseResult = DataOrNull)
    /\ (LegacyEnvelope(parseInput) /\ parseInput.state.str # "success"
          => parseResult = ReturnsNull)
    /\ (CurrentErrorEnvelope(parseInput) \/ parseInput.kind \in {"null", "undefined"}
          => parseResult = ReturnsNull)
    /\ (~LegacyEnvelope(parseInput) /\ ~CurrentErrorEnvelope(parseInput)
          /\ parseInput.kind \notin {"null", "undefined"}
          => parseResult = ReturnsResponse)

\* C17 amended: the current error envelope is looked for first, so a
\* response that is a current error envelope gives null even when it is a
\* legacy envelope with state "success" as well; the other cases are as
\* stated.
C17_ParseErrorEnvelopeFirst ==
  parseDone =>
    parseResult =
      IF CurrentErrorEnvelope(parseInput) \/ parseInput.kind \in {"null", "undefined"}
      THEN ReturnsNull
      ELSE IF LegacyEnvelope(parseInput)
           THEN (IF parseInput.state.str = "success" THEN DataOrNull ELSE ReturnsNull)
      ELSE ReturnsResponse

\* C17's case: a legacy success envelope without a data field, beside an
\* error field that is no current envelope, parsed to null.
C17_Witness ==
  /\ parseDone
  /\ parseInput.hasCode
  /\ parseInput.state.str = "success"
  /\ parseInput.error.kind = "string"
  /\ parseData = "absent"
  /\ parseResult = ReturnsNull

(***************************************************************************)
(* ScreenshotsGallery: the page shown and the totals of the server.        *)
(* galServerTotal is the number of screenshots on the server that match    *)
(* the filter; galData is the last response the query holds (data), and    *)
(* galError whether the last fetch failed (error).  Every handler is       *)
(* modelled with the fetch its state change starts.                        *)
(***************************************************************************)
MaxScreenshots == 30
MaxDeleted == 2

PAGE_SIZE_OPTIONS == {12, 24, 48}

GalleryPageSize == 12

\* The response of the server for a page that exists: page is 1-based.
ScreenshotsPage(total, page, pageSize) ==
  [total |-> total,
   totalPages |-> Ceil(total, pageSize),
   results |-> Len(Slice(Items(total), (page - 1) * pageSize, page * pageSize))]

\* What the server may answer: the page; for a page past the last one,
\* an empty page with the totals, or an error.
ServerAnswers(total, page, pageSize) ==
  IF page = 1 \/ page <= Ceil(total, pageSize)
  THEN {[ok |-> TRUE, data |-> ScreenshotsPage(total, page, pageSize)]}
  ELSE {[ok |-> TRUE, data |-> ScreenshotsPage(total, page, pageSize)],
        [ok |-> FALSE, data |-> ScreenshotsPage(0, 1, pageSize)]}

\* const totalPages = data?.totalPages || 0
totalPages == galData.totalPages

\* The gallery with its pagination controls is on screen: no error state,
\* no empty state, and totalPages > 1 || total > 12.
PaginationShown ==
  /\ ~galError
  /\ ~(galData.results = 0 /\ ~galFilter)
  /\ (totalPages > 1 \/ galData.total > GalleryPageSize)

\* The grid with its toolbar is on screen.
GalleryShown == ~galError /\ ~(galData.results = 0 /\ ~galFilter)

\* The query runs for the pagination pag against total matching items: the
\* data of a failed fetch stays what it was.
GalleryFetch(pag, total) ==
  \E answer \in ServerAnswers(total, pag.pageIndex + 1, pag.pageSize) :
    /\ galError' = ~answer.ok
    /\ galData' = (IF answer.ok THEN answer.data ELSE galData)

GalInit ==
  /\ galPagination = [pageIndex |-> 0, pageSize |-> GalleryPageSize]
  /\ galServerTotal \in 0..MaxScreenshots
  /\ galData = ScreenshotsPage(galServerTotal, 1, GalleryPageSize)
  /\ galError = FALSE
  /\ galFilter = FALSE
  /\ galLastEvent = "mount"

GalIdle ==
  /\ galPagination = [pageIndex |-> 0, pageSize |-> GalleryPageSize]
  /\ galServerTotal = 0
  /\ galData = ScreenshotsPage(0, 1, GalleryPageSize)
  /\ galError = FALSE
  /\ galFilter = FALSE
  /\ galLastEvent = "mount"

\* The previous button: disabled on the first page.
PreviousPage ==
  /\ PaginationShown
  /\ galPagination.pageIndex # 0
  /\ galPagination' = [galPagination EXCEPT !.pageIndex = Max(0, @ - 1)]
  /\ GalleryFetch(galPagination', galServerTotal)
  /\ galLastEvent' = "previous"
  /\ UNCHANGED <<galServerTotal, galFilter>>
  /\ UNCHANGED galOthers

\* The next button: disabled when pageIndex >= totalPages - 1.
NextPage ==
  /\ PaginationShown
  /\ ~(galPagination.pageIndex >= totalPages - 1)
  /\ galPagination' = [galPagination EXCEPT !.pageIndex = Min(totalPages - 1, @ + 1)]
  /\ GalleryFetch(galPagination', galServerTotal)
  /\ galLastEvent' = "next"
  /\ UNCHANGED <<galServerTotal, galFilter>>
  /\ UNCHANGED galOthers

\* handleSearch: another filter, matched by total screenshots, from page 0.
handleSearch(filtered, total) ==
  /\ GalleryShown
  /\ filtered \/ galFilter
  /\ galFilter' = filtered
  /\ galServerTotal' = total
  /\ galPagination' = [galPagination EXCEPT !.pageIndex = 0]
  /\ GalleryFetch(galPagination', total)
  /\ galLastEvent' = "search"
  /\ UNCHANGED galOthers

handlePageSizeChange(newPageSize) ==
  /\ PaginationShown
  /\ newPageSize # galPagination.pageSize
  /\ galPagination' = [pageIndex |-> 0, pageSize |-> newPageSize]
  /\ GalleryFetch(galPagination', galServerTotal)
  /\ galLastEvent' = "pageSize"
  /\ UNCHANGED <<galServerTotal, galFilter>>
  /\ UNCHANGED galOthers

\* handleBulkDelete of n selected screenshots of the page, the deletion
\* succeeding: the selection is cleared and refetch() runs; pagination is
\* left as it is.
handleBulkDelete(n) ==
  /\ GalleryShown
  /\ n <= galData.results
  /\ galServerTotal' = galServerTotal - n
  /\ GalleryFetch(galPagination, galServerTotal')
  /\ galLastEvent' = "delete"
  /\ UNCHANGED <<galPagination, galFilter>>
  /\ UNCHANGED galOthers

\* The retry button of the error state: refetch().
RetryFetch ==
  /\ galError
  /\ GalleryFetch(galPagination, galServerTotal)
  /\ galLastEvent' = "retry"
  /\ UNCHANGED <<galPagination, galServerTotal, galFilter>>
  /\ UNCHANGED galOthers

GalNext ==
  \/ PreviousPage
  \/ NextPage
  \/ \E filtered \in BOOLEAN, total \in {0, 13, 25} : handleSearch(filtered, total)
  \/ \E size \in PAGE_SIZE_OPTIONS : handlePageSizeChange(size)
  \/ \E n \in 1..MaxDeleted : handleBulkDelete(n)
  \/ RetryFetch

\* C18: the page shown is one the server's totals have: pageIndex >= 0 and,
\* when the server has at least one page, pageIndex <= totalPages - 1, after
\* any previous/next, search, page size change and bulk delete with its
\* refetch.
C18_PageWithinTotals ==
  /\ galPagination.pageIndex >= 0
  /\ (~galError /\ totalPages >= 1 => galPagination.pageIndex <= totalPages - 1)
  /\ (Ceil(galServerTotal, galPagination.pageSize) >= 1 =>
        galPagination.pageIndex <= Ceil(galServerTotal, galPagination.pageSize) - 1)

(***************************************************************************)
(* AnsiLogViewer: colorizeLogContent and highlightSearch on one line of    *)
(* content without ANSI codes.                                             *)
(* A text is a sequence of characters; "T" stands for the text of a        *)
(* timestamp "[2026-01-07 12:00:00]" and "L" for that of a level "[INFO]". *)
(* HTML is a sequence of items: a tag, or one character of text; src is    *)
(* the place in the content of the character an item of text renders.      *)
(* "U+4E2D" is the one character of that code point, outside ASCII.        *)
(***************************************************************************)
MaxRestLen == 3
MaxQueryLen == 2

RestChars == {"L", " ", "<", "U+4E2D"}
QueryChars == {"T", "L", " ", "<", "U+4E2D"}

\* The line: with or without the prefix that logLineRegex matches.
LinePrefixes == {<<>>, <<"T", " ", "L", " ">>}
RestTexts == UNION {[1..n -> RestChars] : n \in 0..MaxRestLen}
SearchContents == {p \o r : p \in LinePrefixes, r \in RestTexts}
SearchQueries == UNION {[1..n -> QueryChars] : n \in 0..MaxQueryLen}

Tag(name) == [ch |-> name, tag |-> TRUE, src |-> 0]
TextItem(c, i) == [ch |-> c, tag |-> FALSE, src |-> i]

\* An escape that leaves characters outside ASCII as they are.
EscapeXML_AsciiOnly(c) ==
  IF c = "<" THEN <<"&", "l", "t", ";">> ELSE <<c>>

\* ansi-to-html with escapeXML: the entity of a character.
EscapeXML(c) ==
  CASE c = "<" -> <<"&", "l", "t", ";">>
    [] c = "U+4E2D" -> <<"&", "#", "x", "4", "E", "2", "D", ";">>
    [] OTHER -> <<c>>

\* The entity of body text is always the converter's own.
BodyEscape(c) ==
  CASE c = "<" -> <<"&", "l", "t", ";">>
    [] c = "U+4E2D" -> <<"&", "#", "x", "4", "E", "2", "D", ";">>
    [] OTHER -> <<c>>

\* ansiConverter.toHtml(text) for the body, the text starting at place
\* first of the content.
RECURSIVE toHtml(_, _)
toHtml(text, first) ==
  IF text = <<>> THEN <<>>
  ELSE [k \in 1..Len(BodyEscape(Head(text))) |-> TextItem(BodyEscape(Head(text))[k], first)]
         \o toHtml(Tail(text), first + 1)

\* ansiConverter.toHtml(query): the characters to look for.
RECURSIVE EscapedQuery(_)
EscapedQuery(query) ==
  IF query = <<>> THEN <<>>
  ELSE EscapeXML(Head(query)) \o EscapedQuery(Tail(query))

\* line.match(logLineRegex): timestamp, space, level, space, rest.
MatchesLogLine(line) ==
  /\ Len(line) >= 4
  /\ line[1] = "T" /\ line[2] = " " /\ line[3] = "L" /\ line[4] = " "

\* colorizeLogContent on the line.
colorizeLogContent(line) ==
  IF MatchesLogLine(line)
  THEN <<Tag("<span timestamp>")>> \o toHtml(<<line[1]>>, 1) \o <<Tag("</span>")>>
         \o <<TextItem(" ", 2)>>
         \o <<Tag("<span level>")>> \o toHtml(<<line[3]>>, 3) \o <<Tag("</span>")>>
         \o <<TextItem(" ", 4)>>
         \o toHtml(SubSeq(line, 5, Len(line)), 5)
  ELSE toHtml(line, 1)

\* The regex matches at place i of the html: the characters of the escaped
\* query, all of them text.
MatchesAt(html, escaped, i) ==
  /\ i + Len(escaped) - 1 <= Len(html)
  /\ \A k \in 1..Len(escaped) : ~html[i + k - 1].tag /\ html[i + k - 1].ch = escaped[k]

\* html.replace over tags and runs of text: tags are kept, the matches of
\* the regex in the text are wrapped in <mark>, from left to right.
RECURSIVE HighlightFrom(_, _, _)
HighlightFrom(html, escaped, i) ==
  IF i > Len(html) THEN <<>>
  ELSE IF html[i].tag THEN <<html[i]>> \o HighlightFrom(html, escaped, i + 1)
  ELSE IF MatchesAt(html, escaped, i)
       THEN <<Tag("<mark>")>> \o SubSeq(html, i, i + Len(escaped) - 1) \o <<Tag("</mark>")>>
              \o HighlightFrom(html, escaped, i + Len(escaped))
  ELSE <<html[i]>> \o HighlightFrom(html, escaped, i + 1)

\* !query.trim()
IsBlank(query) == \A k \in 1..Len(query) : query[k] = " "

highlightSearch(html, query) ==
  IF IsBlank(query) THEN html ELSE HighlightFrom(html, EscapedQuery(query), 1)

HlInit ==
  /\ searchContent \in SearchContents
  /\ searchQuery \in SearchQueries
  /\ searchHtml = <<>>
  /\ searchDone = FALSE

HlIdle ==
  /\ searchContent = <<>>
  /\ searchQuery = <<>>
  /\ searchHtml = <<>>
  /\ searchDone = FALSE

\* The htmlContent memo: if (!content) return "", else colorize and
\* highlight.
RenderHighlighted ==
  /\ ~searchDone
  /\ searchDone' = TRUE
  /\ searchHtml' = (IF searchContent = <<>> THEN <<>>
                    ELSE highlightSearch(colorizeLogContent(searchContent), searchQuery))
  /\ UNCHANGED <<searchContent, searchQuery>>
  /\ UNCHANGED hlOthers

HlNext == RenderHighlighted

\* The places of the content whose character is rendered inside a <mark>.
MarkedPlaces ==
  {searchHtml[k].src : k \in {j \in 1..Len(searchHtml) :
      /\ ~searchHtml[j].tag
      /\ Cardinality({m \in 1..j : searchHtml[m] = Tag("<mark>")})
           > Cardinality({m \in 1..j : searchHtml[m] = Tag("</mark>")})}}

\* The places where the query occurs in the content, taken from left to
\* right without overlap.
RECURSIVE OccurrencesFrom(_, _, _)
OccurrencesFrom(text, query, i) ==
  IF i + Len(query) - 1 > Len(text) THEN {}
  ELSE IF SubSeq(text, i, i + Len(query) - 1) = query
       THEN {i} \cup OccurrencesFrom(text, query, i + Len(query))
  ELSE OccurrencesFrom(text, query, i + 1)

AllOccurrencesMarked ==
  \A i \in OccurrencesFrom(searchContent, searchQuery, 1) :
    \A j \in i..(i + Len(searchQuery) - 1) : j \in MarkedPlaces

\* The html with the <mark> tags taken out again.
WithoutMarks(html) == SelectSeq(html, LAMBDA item : item \notin {Tag("<mark>"), Tag("</mark>")})

\* C19: for a query that is not blank, every occurrence of the query in the
\* text of the line is rendered inside a <mark>, for characters outside
\* ASCII and HTML-special characters as well, and nothing but <mark> tags is
\* added to the html.
C19_EveryOccurrenceMarked ==
  (searchDone /\ ~IsBlank(searchQuery)) =>
    /\ AllOccurrencesMarked
    /\ WithoutMarks(searchHtml) = colorizeLogContent(searchContent)

\* What does hold: every occurrence is marked in a line that is rendered
\* without tags (one that logLineRegex does not match).
PlainLineOccurrencesMarked ==
  (searchDone /\ ~IsBlank(searchQuery) /\ ~MatchesLogLine(searchContent)) =>
    /\ AllOccurrencesMarked
    /\ WithoutMarks(searchHtml) = colorizeLogContent(searchContent)

(***************************************************************************)
(* api-client: getErrorMessage.                                            *)
(* An error is what the function reads of it: whether axios.isCancel holds *)
(* of it, its code, its message, and the fields error, message and detail  *)
(* of response.data ("" stands for a field that is absent or empty,        *)
(* hasData for response?.data being there).  The field error is a string   *)
(* or the object {code, message} of the current error envelope.            *)
(***************************************************************************)
ErrorCodes == {"", "ECONNABORTED", "ERR_NETWORK"}

DataErrorFields ==
  { [kind |-> "absent", text |-> ""],
    [kind |-> "string", text |-> ""],
    [kind |-> "string", text |-> "name already exists"],
    [kind |-> "object", text |-> "Resource not found"] }

ThrownErrors ==
  [isCancel : BOOLEAN, code : ErrorCodes, hasData : BOOLEAN,
   dataError : DataErrorFields, dataMessage : {"", "bad request"},
   dataDetail : {"", "Not found."}, message : {"", "Network Error"}]

\* What the function returns: a string, or an object.
StringResult(s) == [type |-> "string", text |-> s]
ObjectResult(s) == [type |-> "object", text |-> s]

\* if (value): a string that is not empty, or an object.
Truthy(field) == field.kind = "object" \/ (field.kind = "string" /\ field.text # "")

\* A return of the envelope's message for an error that is an object.
ReturnDataError_MessageOfEnvelope(field) == StringResult(field.text)

\* return err.response.data.error
ReturnDataError(field) ==
  IF field.kind = "object" THEN ObjectResult(field.text) ELSE StringResult(field.text)

getErrorMessage(error) ==
  IF error.isCancel THEN StringResult("Request has been cancelled")
  ELSE IF error.code = "ECONNABORTED"
       THEN StringResult("Request timeout, please try again later")
  ELSE IF error.hasData /\ Truthy(error.dataError) THEN ReturnDataError(error.dataError)
  ELSE IF error.hasData /\ error.dataMessage # "" THEN StringResult(error.dataMessage)
  ELSE IF error.hasData /\ error.dataDetail # "" THEN StringResult(error.dataDetail)
  ELSE IF error.message # "" THEN StringResult(error.message)
  ELSE StringResult("Unknown error occurred")

MsgInit ==
  /\ thrownError \in ThrownErrors
  /\ errorMessage = StringResult("")
  /\ messageDone = FALSE

MsgIdle ==
  /\ thrownError = [isCancel |-> FALSE, code |-> "", hasData |-> FALSE,
                    dataError |-> [kind |-> "absent", text |-> ""],
                    dataMessage |-> "", dataDetail |-> "", message |-> ""]
  /\ errorMessage = StringResult("")
  /\ messageDone = FALSE

\* A catch block asks for the message of the error it caught.
GetErrorMessage ==
  /\ ~messageDone
  /\ messageDone' = TRUE
  /\ errorMessage' = getErrorMessage(thrownError)
  /\ UNCHANGED thrownError
  /\ UNCHANGED msgOthers

MsgNext == GetErrorMessage

\* The message the backend's response carries, "" when it carries none.
BackendMessage(error) ==
  IF ~error.hasData THEN ""
  ELSE IF error.dataError.text # "" THEN error.dataError.text
  ELSE IF error.dataMessage # "" THEN error.dataMessage
  ELSE error.dataDetail

\* C20: getErrorMessage returns a string, chosen by the priority: the
\* cancellation message, else the timeout message for ECONNABORTED, else
\* the message of the backend's response, else the error's own message,
\* else the fallback; a string too when response.data is the envelope
\* {error: {code, message}}.
C20_MessageByPriority ==
  messageDone =>
    /\ errorMessage.type = "string"
    /\ errorMessage.text =
         IF thrownError.isCancel THEN "Request has been cancelled"
         ELSE IF thrownError.code = "ECONNABORTED"
              THEN "Request timeout, please try again later"
         ELSE IF BackendMessage(thrownError) # "" THEN BackendMessage(thrownError)
         ELSE IF thrownError.message # "" THEN thrownError.message
         ELSE "Unknown error occurred"

\* What does hold: the statement above for every response whose error field
\* is a string or absent.
MessageByPriorityForStrings ==
  (messageDone /\ thrownError.dataError.kind # "object") =>
    /\ errorMessage.type = "string"
    /\ errorMessage.text =
         IF thrownError.isCancel THEN "Request has been cancelled"
         ELSE IF thrownError.code = "ECONNABORTED"
              THEN "Request timeout, please try again later"
         ELSE IF BackendMessage(thrownError) # "" THEN BackendMessage(thrownError)
         ELSE IF thrownError.message # "" THEN thrownError.message
         ELSE "Unknown error occurred"

(***************************************************************************)
(* QuickScanDialog: the three-step wizard.                                 *)
(* The target input is the sequence of its lines, each line standing for   *)
(* the result TargetValidator.validateInputBatch gives it (isValid,        *)
(* isEmptyLine); the input "" is one empty line.  qsInFlight counts the    *)
(* quickScan requests not yet settled, qsEngineLoads the getEngines        *)
(* requests not yet settled, qsLastRequest records what the last quickScan *)
(* request was issued with, qsToast the last toast shown.                  *)
(***************************************************************************)
MaxTargetLines == 2
MaxSubmits == 2
MaxEngineLoads == 2

\* A line is a target, an empty line, or a line that is no target.
LineResults ==
  { [isValid |-> TRUE, isEmptyLine |-> FALSE],
    [isValid |-> TRUE, isEmptyLine |-> TRUE],
    [isValid |-> FALSE, isEmptyLine |-> FALSE] }
EmptyLine == [isValid |-> TRUE, isEmptyLine |-> TRUE]
EmptyInput == <<EmptyLine>>
TargetInputs ==
  UNION { [1..n -> LineResults] : n \in 1..MaxTargetLines }

EngineIds == {"1", "2"}
NoEngine == ""
NoRequest == [step |-> 0, targets |-> 0, engineId |-> NoEngine]

validInputs(input) == SelectSeq(input, LAMBDA r : r.isValid /\ ~r.isEmptyLine)
invalidInputs(input) == SelectSeq(input, LAMBDA r : ~r.isValid)
hasErrors(input) == Len(invalidInputs(input)) > 0

\* A check of step 1 that lets invalid lines through.
Step1Toast_NoErrorCheck(input) ==
  IF Len(validInputs(input)) = 0 THEN "toast.noValidTarget" ELSE ""

\* handleNext at step 1: the toast that stops it, "" when nothing does.
Step1Toast(input) ==
  IF Len(validInputs(input)) = 0 THEN "toast.noValidTarget"
  ELSE IF hasErrors(input) THEN "toast.hasInvalidInputs"
  ELSE ""

QsInit ==
  /\ qsOpen = FALSE
  /\ qsStep = 1
  /\ qsTargetInput = EmptyInput
  /\ qsSelectedEngineId = NoEngine
  /\ qsEngines = {}
  /\ qsIsLoading = FALSE
  /\ qsIsSubmitting = FALSE
  /\ qsEngineLoads = 0
  /\ qsInFlight = 0
  /\ qsSubmitCount = 0
  /\ qsLastRequest = NoRequest
  /\ qsToast = ""

QsIdle == QsInit

\* handleClose(true): the trigger opens the dialog.
OpenQuickScan ==
  /\ ~qsOpen
  /\ qsOpen' = TRUE
  /\ UNCHANGED <<qsStep, qsTargetInput, qsSelectedEngineId, qsEngines,
                 qsIsLoading, qsIsSubmitting, qsEngineLoads, qsInFlight,
                 qsSubmitCount, qsLastRequest, qsToast>>
  /\ UNCHANGED qsOthers

\* handleClose(false): the user dismisses the dialog; resetForm.
CloseQuickScan ==
  /\ qsOpen
  /\ qsOpen' = FALSE
  /\ qsStep' = 1
  /\ qsTargetInput' = EmptyInput
  /\ qsSelectedEngineId' = NoEngine
  /\ UNCHANGED <<qsEngines, qsIsLoading, qsIsSubmitting, qsEngineLoads,
                 qsInFlight, qsSubmitCount, qsLastRequest, qsToast>>
  /\ UNCHANGED qsOthers

\* The textarea of step 1: onChange sets targetInput.
TypeTargets(input) ==
  /\ qsOpen /\ qsStep = 1
  /\ input # qsTargetInput
  /\ qsTargetInput' = input
  /\ UNCHANGED <<qsOpen, qsStep, qsSelectedEngineId, qsEngines, qsIsLoading,
                 qsIsSubmitting, qsEngineLoads, qsInFlight, qsSubmitCount,
                 qsLastRequest, qsToast>>
  /\ UNCHANGED qsOthers

\* The Next button (shown while step < 3), and, when it arrives at step 2
\* with no engines loaded, the effect that starts getEngines.
handleNext ==
  /\ qsOpen /\ qsStep < 3
  /\ IF qsStep = 1 /\ Step1Toast(qsTargetInput) # ""
     THEN /\ qsToast' = Step1Toast(qsTargetInput)
          /\ UNCHANGED <<qsStep, qsIsLoading, qsEngineLoads>>
     ELSE IF qsStep = 2 /\ qsSelectedEngineId = NoEngine
     THEN /\ qsToast' = "toast.selectEngine"
          /\ UNCHANGED <<qsStep, qsIsLoading, qsEngineLoads>>
     ELSE /\ qsStep' = qsStep + 1
          /\ IF qsStep + 1 = 2 /\ qsEngines = {}
             THEN /\ qsEngineLoads < MaxEngineLoads
                  /\ qsIsLoading' = TRUE
                  /\ qsEngineLoads' = qsEngineLoads + 1
             ELSE UNCHANGED <<qsIsLoading, qsEngineLoads>>
          /\ UNCHANGED qsToast
  /\ UNCHANGED <<qsOpen, qsTargetInput, qsSelectedEngineId, qsEngines,
                 qsIsSubmitting, qsInFlight, qsSubmitCount, qsLastRequest>>
  /\ UNCHANGED qsOthers

\* The Previous button, disabled at step 1.
handlePrev ==
  /\ qsOpen /\ qsStep # 1
  /\ qsStep' = qsStep - 1
  /\ UNCHANGED <<qsOpen, qsTargetInput, qsSelectedEngineId, qsEngines,
                 qsIsLoading, qsIsSubmitting, qsEngineLoads, qsInFlight,
                 qsSubmitCount, qsLastRequest, qsToast>>
  /\ UNCHANGED qsOthers

\* getEngines().then(setEngines).finally(() => setIsLoading(false))
EnginesResolve ==
  /\ qsEngineLoads > 0
  /\ qsEngineLoads' = qsEngineLoads - 1
  /\ qsEngines' = EngineIds
  /\ qsIsLoading' = FALSE
  /\ UNCHANGED <<qsOpen, qsStep, qsTargetInput, qsSelectedEngineId,
                 qsIsSubmitting, qsInFlight, qsSubmitCount, qsLastRequest,
                 qsToast>>
  /\ UNCHANGED qsOthers

\* getEngines().catch(toast.error).finally(() => setIsLoading(false))
EnginesReject ==
  /\ qsEngineLoads > 0
  /\ qsEngineLoads' = qsEngineLoads - 1
  /\ qsToast' = "toast.getEnginesFailed"
  /\ qsIsLoading' = FALSE
  /\ UNCHANGED <<qsOpen, qsStep, qsTargetInput, qsSelectedEngineId, qsEngines,
                 qsIsSubmitting, qsInFlight, qsSubmitCount, qsLastRequest>>
  /\ UNCHANGED qsOthers

\* The radio group of step 2, shown once the engines are loaded and
\* disabled while submitting.
SelectEngine(id) ==
  /\ qsOpen /\ qsStep = 2
  /\ ~qsIsLoading /\ id \in qsEngines /\ ~qsIsSubmitting
  /\ id # qsSelectedEngineId
  /\ qsSelectedEngineId' = id
  /\ UNCHANGED <<qsOpen, qsStep, qsTargetInput, qsEngines, qsIsLoading,
                 qsIsSubmitting, qsEngineLoads, qsInFlight, qsSubmitCount,
                 qsLastRequest, qsToast>>
  /\ UNCHANGED qsOthers

\* The Start button of step 3, disabled while isSubmitting: handleSubmit up
\* to its await.
handleSubmit ==
  /\ qsOpen /\ qsStep = 3 /\ ~qsIsSubmitting
  /\ qsSubmitCount < MaxSubmits
  /\ IF Len(validInputs(qsTargetInput)) = 0
     THEN UNCHANGED <<qsIsSubmitting, qsInFlight, qsLastRequest>>
     ELSE /\ qsIsSubmitting' = TRUE
          /\ qsInFlight' = qsInFlight + 1
          /\ qsLastRequest' = [step |-> qsStep,
                               targets |-> Len(validInputs(qsTargetInput)),
                               engineId |-> qsSelectedEngineId]
  /\ qsSubmitCount' = qsSubmitCount + 1
  /\ UNCHANGED <<qsOpen, qsStep, qsTargetInput, qsSelectedEngineId, qsEngines,
                 qsIsLoading, qsEngineLoads, qsToast>>
  /\ UNCHANGED qsOthers

\* handleSubmit after the await, the request fulfilled: the success toast,
\* handleClose(false), finally.
QuickScanResolves ==
  /\ qsInFlight > 0
  /\ qsInFlight' = qsInFlight - 1
  /\ qsToast' = "toast.createSuccess"
  /\ qsOpen' = FALSE
  /\ qsStep' = 1
  /\ qsTargetInput' = EmptyInput
  /\ qsSelectedEngineId' = NoEngine
  /\ qsIsSubmitting' = FALSE
  /\ UNCHANGED <<qsEngines, qsIsLoading, qsEngineLoads, qsSubmitCount,
                 qsLastRequest>>
  /\ UNCHANGED qsOthers

\* handleSubmit after the await, the request rejected: catch, finally.
QuickScanRejects ==
  /\ qsInFlight > 0
  /\ qsInFlight' = qsInFlight - 1
  /\ qsToast' = "toast.createFailed"
  /\ qsIsSubmitting' = FALSE
  /\ UNCHANGED <<qsOpen, qsStep, qsTargetInput, qsSelectedEngineId, qsEngines,
                 qsIsLoading, qsEngineLoads, qsSubmitCount, qsLastRequest>>
  /\ UNCHANGED qsOthers

QsNext ==
  \/ OpenQuickScan
  \/ CloseQuickScan
  \/ \E input \in TargetInputs : TypeTargets(input)
  \/ handleNext
  \/ handlePrev
  \/ EnginesResolve
  \/ EnginesReject
  \/ \E id \in EngineIds : SelectEngine(id)
  \/ handleSubmit
  \/ QuickScanResolves
  \/ QuickScanRejects

\* C21: the step is 1, 2 or 3; at step 3 the target input has a valid line,
\* no invalid line, and an engine is selected; every quickScan request was
\* issued from step 3 with targets and an engine; at most one quickScan
\* request is in flight; a closed dialog is at step 1 with empty targets
\* and no engine selected.
C21_WizardSteps ==
  /\ qsStep \in {1, 2, 3}
  /\ qsStep = 3 =>
       /\ Len(validInputs(qsTargetInput)) >= 1
       /\ Len(invalidInputs(qsTargetInput)) = 0
       /\ qsSelectedEngineId # NoEngine
  /\ qsLastRequest # NoRequest =>
       /\ qsLastRequest.step = 3
       /\ qsLastRequest.targets >= 1
       /\ qsLastRequest.engineId # NoEngine
  /\ qsInFlight <= 1
  /\ ~qsOpen =>
       /\ qsStep = 1
       /\ qsTargetInput = EmptyInput
       /\ qsSelectedEngineId = NoEngine

\* A second request was issued after the first one failed, and the dialog
\* was closed while it was in flight.
C21_Witness ==
  /\ qsSubmitCount = 2
  /\ qsInFlight = 1
  /\ ~qsOpen

(***************************************************************************)
(* InitiateScanDialog: the dialog and its scan request.                    *)
(* open is the parent's state, changed by the onOpenChange the dialog      *)
(* calls and by the parent's trigger; organizationId and targetId are      *)
(* props, 0 standing for one that is not passed (!id holds of both).       *)
(* isdInFlight counts the initiateScan requests not yet settled, isdToast  *)
(* is the last toast shown and isdEvent the last handler that ran.         *)
(***************************************************************************)
MaxInitiates == 3

ScanScopeIds == {0, 7}

\* A dialog that honours open changes also while submitting.
OpenChangeAllowed_Always(submitting) == TRUE

\* handleOpenChange: if (!isSubmitting)
OpenChangeAllowed(submitting) == ~submitting

IsdInit ==
  /\ isdOpen = FALSE
  /\ isdSelectedEngineId = NoEngine
  /\ isdIsSubmitting = FALSE
  /\ organizationId \in ScanScopeIds
  /\ targetId \in ScanScopeIds
  /\ isdInFlight = 0
  /\ isdInitiateCount = 0
  /\ isdToast = ""
  /\ isdEvent = ""

IsdIdle ==
  /\ isdOpen = FALSE
  /\ isdSelectedEngineId = NoEngine
  /\ isdIsSubmitting = FALSE
  /\ organizationId = 0
  /\ targetId = 0
  /\ isdInFlight = 0
  /\ isdInitiateCount = 0
  /\ isdToast = ""
  /\ isdEvent = ""

\* The parent shows the dialog.
ParentOpensDialog ==
  /\ ~isdOpen
  /\ isdOpen' = TRUE
  /\ isdEvent' = "open"
  /\ UNCHANGED <<isdSelectedEngineId, isdIsSubmitting, organizationId,
                 targetId, isdInFlight, isdInitiateCount, isdToast>>
  /\ UNCHANGED isdOthers

\* handleOpenChange(newOpen), from the dialog (Escape, overlay, close
\* button) or from the Cancel button.
handleOpenChange(newOpen) ==
  /\ isdOpen
  /\ isdEvent' = "openChange"
  /\ IF OpenChangeAllowed(isdIsSubmitting)
     THEN /\ isdOpen' = newOpen
          /\ isdSelectedEngineId' =
               IF ~newOpen THEN NoEngine ELSE isdSelectedEngineId
     ELSE UNCHANGED <<isdOpen, isdSelectedEngineId>>
  /\ UNCHANGED <<isdIsSubmitting, organizationId, targetId, isdInFlight,
                 isdInitiateCount, isdToast>>
  /\ UNCHANGED isdOthers

\* The radio group, disabled while isSubmitting.
SelectScanEngine(id) ==
  /\ isdOpen /\ ~isdIsSubmitting
  /\ id # isdSelectedEngineId
  /\ isdSelectedEngineId' = id
  /\ isdEvent' = "select"
  /\ UNCHANGED <<isdOpen, isdIsSubmitting, organizationId, targetId,
                 isdInFlight, isdInitiateCount, isdToast>>
  /\ UNCHANGED isdOthers

\* The Start button, disabled while !selectedEngineId || isSubmitting:
\* handleInitiate up to its await.
handleInitiate ==
  /\ isdOpen /\ isdSelectedEngineId # NoEngine /\ ~isdIsSubmitting
  /\ isdInitiateCount < MaxInitiates
  /\ isdInitiateCount' = isdInitiateCount + 1
  /\ isdEvent' = "initiate"
  /\ IF isdSelectedEngineId = NoEngine
     THEN UNCHANGED <<isdIsSubmitting, isdInFlight, isdToast>>
     ELSE IF organizationId = 0 /\ targetId = 0
     THEN /\ isdToast' = "paramError"
          /\ UNCHANGED <<isdIsSubmitting, isdInFlight>>
     ELSE /\ isdIsSubmitting' = TRUE
          /\ isdInFlight' = isdInFlight + 1
          /\ UNCHANGED isdToast
  /\ UNCHANGED <<isdOpen, isdSelectedEngineId, organizationId, targetId>>
  /\ UNCHANGED isdOthers

\* handleInitiate after the await, the request fulfilled.
InitiateResolves ==
  /\ isdInFlight > 0
  /\ isdInFlight' = isdInFlight - 1
  /\ isdToast' = "scanInitiated"
  /\ isdOpen' = FALSE
  /\ isdSelectedEngineId' = NoEngine
  /\ isdIsSubmitting' = FALSE
  /\ isdEvent' = "resolved"
  /\ UNCHANGED <<organizationId, targetId, isdInitiateCount>>
  /\ UNCHANGED isdOthers

\* handleInitiate after the await, the request rejected.
InitiateRejects ==
  /\ isdInFlight > 0
  /\ isdInFlight' = isdInFlight - 1
  /\ isdToast' = "initiateScanFailed"
  /\ isdIsSubmitting' = FALSE
  /\ isdEvent' = "rejected"
  /\ UNCHANGED <<isdOpen, isdSelectedEngineId, organizationId, targetId,
                 isdInitiateCount>>
  /\ UNCHANGED isdOthers

IsdNext ==
  \/ ParentOpensDialog
  \/ \E newOpen \in BOOLEAN : handleOpenChange(newOpen)
  \/ \E id \in EngineIds : SelectScanEngine(id)
  \/ handleInitiate
  \/ InitiateResolves
  \/ InitiateRejects

\* A step that sends a request.
ScanRequestSent == isdInFlight' > isdInFlight

\* A step that settles a request.
ScanRequestSettles == isdInFlight' < isdInFlight

\* C22: a scan request is sent only with an engine selected and an
\* organizationId or targetId, and never while another is in flight; with
\* an engine and no id the Start button sends nothing and shows the
\* parameter-error toast; while a request is in flight open and the engine
\* selection do not change; when it settles isSubmitting is false, the dialog
\* closed and the selection cleared on success, both kept on failure.
C22_InitiateScanGuarded ==
  /\ [](isdInFlight <= 1 /\ (isdIsSubmitting <=> isdInFlight = 1))
  /\ [][ /\ ScanRequestSent =>
              /\ isdSelectedEngineId # NoEngine
              /\ organizationId # 0 \/ targetId # 0
              /\ isdInFlight = 0
         /\ (isdEvent' = "initiate" /\ isdSelectedEngineId # NoEngine
               /\ organizationId = 0 /\ targetId = 0) =>
              /\ ~ScanRequestSent
              /\ isdToast' = "paramError"
         /\ (isdInFlight > 0 /\ ~ScanRequestSettles) =>
              /\ isdOpen' = isdOpen
              /\ isdSelectedEngineId' = isdSelectedEngineId
              /\ ~ScanRequestSent
         /\ ScanRequestSettles =>
              /\ ~isdIsSubmitting'
              /\ \/ /\ isdEvent' = "resolved"
                    /\ ~isdOpen'
                    /\ isdSelectedEngineId' = NoEngine
                 \/ /\ isdEvent' = "rejected"
                    /\ isdOpen' /\ isdOpen
                    /\ isdSelectedEngineId' = isdSelectedEngineId
                    /\ isdSelectedEngineId' # NoEngine
       ]_vars

\* The user tried to close the dialog while a request was in flight, after
\* an earlier request had failed.
C22_Witness ==
  /\ isdInFlight = 1
  /\ isdEvent = "openChange"
  /\ isdToast = "initiateScanFailed"

(***************************************************************************)
(* UnifiedDataTable: the rows delivered to onSelectionChange and the data. *)
(* The data is the set of the ids of its rows; onSelectionChange is        *)
(* passed.  deliveredRows is the argument of the last onSelectionChange    *)
(* call, the empty list before the first one; syncEvent tells what the     *)
(* last step was.                                                          *)
(***************************************************************************)
\* table.getFilteredSelectedRowModel().rows: the rows of the data whose id
\* is selected.
FilteredSelectedRows(selection, rows) ==
  {k \in rows : k \in DOMAIN selection /\ selection[k]}

SyncInit ==
  /\ tableData \in SUBSET RowKeys
  /\ syncRowSelection = EmptySelection
  /\ syncPrevSelectionRef = EmptySelection
  /\ deliveredRows = {}
  /\ syncEvent = "mount"

SyncIdle ==
  /\ tableData = {}
  /\ syncRowSelection = EmptySelection
  /\ syncPrevSelectionRef = EmptySelection
  /\ deliveredRows = {}
  /\ syncEvent = "mount"

\* The effect of lines 332-345 after a render with the next selection and
\* the next data.
SelectionSyncEffect ==
  IF selectionChanged(syncRowSelection', syncPrevSelectionRef)
  THEN /\ syncPrevSelectionRef' = syncRowSelection'
       /\ deliveredRows' = FilteredSelectedRows(syncRowSelection', tableData')
       /\ syncEvent' = "delivered"
  ELSE /\ UNCHANGED <<syncPrevSelectionRef, deliveredRows>>
       /\ syncEvent' = "kept"

\* handleRowSelectionChange: the user toggles rows of the data; the table
\* renders and the effect runs (rowSelection is one of its dependencies).
SelectionChange(newValue) ==
  /\ DOMAIN newValue \subseteq tableData \cup DOMAIN syncRowSelection
  /\ syncRowSelection' = newValue
  /\ UNCHANGED tableData
  /\ SelectionSyncEffect
  /\ UNCHANGED syncOthers

\* The caller passes other data (another server page, a refetch without the
\* rows that were deleted): rowSelection is left as it is, and the effect,
\* when it runs, finds the selection it reported last.
DataChange(newData) ==
  /\ newData # tableData
  /\ tableData' = newData
  /\ UNCHANGED syncRowSelection
  /\ SelectionSyncEffect
  /\ UNCHANGED syncOthers

SyncNext ==
  \/ \E m \in SelectionMaps : SelectionChange(m)
  \/ \E d \in SUBSET RowKeys : DataChange(d)

\* C23: the row list most recently delivered to onSelectionChange is the
\* set of the selected rows that are in the table's current data, after any
\* sequence of selection changes and data changes.
C23_DeliveredIsCurrentSelection ==
  deliveredRows = FilteredSelectedRows(syncRowSelection, tableData)

\* What does hold: a call of onSelectionChange delivers the selected rows of
\* the data of that render.
DeliveredAtCallIsCurrentSelection ==
  syncEvent = "delivered" =>
    deliveredRows = FilteredSelectedRows(syncRowSelection, tableData)

(***************************************************************************)
(* ScanLogList: the content memo and its cache.                            *)
(* A content string is the sequence of its lines, a line the triple of the *)
(* time, the level tag and the content it is built of; '' is the empty     *)
(* sequence.  sllMemo tells which branch the memo took last, sllAppendOnly *)
(* whether every update of logs so far only appended entries.              *)
(***************************************************************************)
MaxScanLogs == 2
MaxScanLogId == 3

NullId == 0

ScanLogIds == 1..MaxScanLogId

\* The two entries a log id may stand for (two scans, or a log rewritten).
ScanLogShapes ==
  { [createdAt |-> "2024-01-01T08:05:09", level |-> "info", content |-> "scan started"],
    [createdAt |-> "2024-01-01T23:59:00", level |-> "error", content |-> "scan failed"] }

ScanLogEntries ==
  { [id |-> i, createdAt |-> s.createdAt, level |-> s.level, content |-> s.content] :
      i \in ScanLogIds, s \in ScanLogShapes }

\* Arrays of logs in the order of their ids.
ScanLogArrays ==
  { logs \in UNION { [1..n -> ScanLogEntries] : n \in 0..MaxScanLogs } :
      \A i \in 1..Len(logs) - 1 : logs[i].id < logs[i + 1].id }

\* formatTime on the dates the model uses (local time).
formatTime(isoString) ==
  CASE isoString = "2024-01-01T08:05:09" -> "08:05:09"
    [] isoString = "2024-01-01T23:59:00" -> "23:59:00"
    [] OTHER -> "NaN:NaN:NaN"

\* logs.map(log => `[${time}] [${levelTag}] ${log.content}`).join('\n')
FormatLogs(logs) ==
  [i \in 1..Len(logs) |->
     <<formatTime(logs[i].createdAt), ToUpperCase(logs[i].level), logs[i].content>>]

\* lastLog?.id ?? null
LastLogId(logs) == IF Len(logs) = 0 THEN NullId ELSE logs[Len(logs)].id

\* The cache test of the memo.
LogsUnchanged(logs, count, lastId) ==
  Len(logs) = count /\ LastLogId(logs) = lastId

SllInit ==
  /\ scanLogs = <<>>
  /\ contentRef = <<>>
  /\ lastLogCountRef = 0
  /\ lastLogIdRef = NullId
  /\ viewerContent = <<>>
  /\ sllMemo = "empty"
  /\ sllAppendOnly = TRUE

SllIdle == SllInit

\* The useMemo of lines 38-63, run for the next logs array.
ContentMemo ==
  IF Len(scanLogs') = 0
  THEN /\ viewerContent' = <<>>
       /\ sllMemo' = "empty"
       /\ UNCHANGED <<contentRef, lastLogCountRef, lastLogIdRef>>
  ELSE IF LogsUnchanged(scanLogs', lastLogCountRef, lastLogIdRef)
  THEN /\ viewerContent' = contentRef
       /\ sllMemo' = "cached"
       /\ UNCHANGED <<contentRef, lastLogCountRef, lastLogIdRef>>
  ELSE /\ lastLogCountRef' = Len(scanLogs')
       /\ lastLogIdRef' = LastLogId(scanLogs')
       /\ contentRef' = FormatLogs(scanLogs')
       /\ viewerContent' = FormatLogs(scanLogs')
       /\ sllMemo' = "fresh"

\* A poll hands over the logs with the new entries appended (none when
\* nothing was logged meanwhile).
AppendLogs(newLogs) ==
  /\ Len(newLogs) >= Len(scanLogs)
  /\ SubSeq(newLogs, 1, Len(scanLogs)) = scanLogs
  /\ scanLogs' = newLogs
  /\ UNCHANGED sllAppendOnly
  /\ ContentMemo
  /\ UNCHANGED sllOthers

\* The caller hands over other logs: those of another scan, or the logs of
\* the scan as the server has them now.
ReplaceLogs(newLogs) ==
  /\ ~(Len(newLogs) >= Len(scanLogs) /\ SubSeq(newLogs, 1, Len(scanLogs)) = scanLogs)
  /\ scanLogs' = newLogs
  /\ sllAppendOnly' = FALSE
  /\ ContentMemo
  /\ UNCHANGED sllOthers

SllNext ==
  \/ \E newLogs \in ScanLogArrays : AppendLogs(newLogs)
  \/ \E newLogs \in ScanLogArrays : ReplaceLogs(newLogs)

\* C24: after any sequence of logs updates the text handed to the viewer is
\* the freshly formatted rendering of the current logs array, one line
\* "[HH:mm:ss] [LEVEL] content" per log, in order.
C24_ContentIsFreshRendering == viewerContent = FormatLogs(scanLogs)

\* What does hold: the same equality as long as every update appended to
\* the logs there were.
AppendedContentIsFreshRendering ==
  sllAppendOnly => viewerContent = FormatLogs(scanLogs)

(***************************************************************************)
(* DashboardDataTable: the delete and stop flows of a scan.                *)
(* The two flows have the same code (handleDelete / handleStop,            *)
(* confirmDelete / confirmStop, deleteMutation / stopMutation), so every   *)
(* variable is a function of the flow: the dialog's open state, the scan   *)
(* picked (scanToDelete / scanToStop), the number of requests not yet      *)
(* settled, the numbers of requests settled and of toasts shown.           *)
(* flowEvent is the last step: what ran, in which flow, for which scan.    *)
(***************************************************************************)
MaxConfirms == 2

ScanFlows == {"delete", "stop"}
ScanRecords == {"scan 1", "scan 2"}
NoScan == "null"
NoFlowEvent == [kind |-> "none", flow |-> "none", scan |-> NoScan]

\* A mutation that invalidates the query whatever the outcome.
ScansInvalidatedBy_AnyOutcome(outcome) == 1

\* onSuccess: queryClient.invalidateQueries({ queryKey: ['scans'] }); the
\* number of invalidations a settled request makes.
ScansInvalidatedBy(outcome) == IF outcome = "success" THEN 1 ELSE 0

FlowInit ==
  /\ confirmDialogOpen = [f \in ScanFlows |-> FALSE]
  /\ pendingScan = [f \in ScanFlows |-> NoScan]
  /\ mutationsInFlight = [f \in ScanFlows |-> 0]
  /\ confirmCount = [f \in ScanFlows |-> 0]
  /\ settledCount = [f \in ScanFlows |-> [success |-> 0, error |-> 0]]
  /\ flowToasts = [f \in ScanFlows |-> [success |-> 0, error |-> 0]]
  /\ scansInvalidations = 0
  /\ flowEvent = NoFlowEvent

FlowIdle == FlowInit

\* handleDelete(scan) / handleStop(scan): a row action of the table, which
\* an open confirmation dialog covers.
HandleRowAction(f, scan) ==
  /\ \A g \in ScanFlows : ~confirmDialogOpen[g]
  /\ pendingScan' = [pendingScan EXCEPT ![f] = scan]
  /\ confirmDialogOpen' = [confirmDialogOpen EXCEPT ![f] = TRUE]
  /\ flowEvent' = [kind |-> "pick", flow |-> f, scan |-> scan]
  /\ UNCHANGED <<mutationsInFlight, confirmCount, settledCount, flowToasts,
                 scansInvalidations>>
  /\ UNCHANGED flowOthers

\* AlertDialogCancel: onOpenChange(false).
CancelConfirmDialog(f) ==
  /\ confirmDialogOpen[f]
  /\ confirmDialogOpen' = [confirmDialogOpen EXCEPT ![f] = FALSE]
  /\ flowEvent' = [kind |-> "cancel", flow |-> f, scan |-> pendingScan[f]]
  /\ UNCHANGED <<pendingScan, mutationsInFlight, confirmCount, settledCount,
                 flowToasts, scansInvalidations>>
  /\ UNCHANGED flowOthers

\* AlertDialogAction: confirmDelete / confirmStop up to the await (the
\* action button closes the dialog also when the handler returns early).
ConfirmAction(f) ==
  /\ confirmDialogOpen[f]
  /\ confirmCount[f] < MaxConfirms
  /\ confirmCount' = [confirmCount EXCEPT ![f] = @ + 1]
  /\ confirmDialogOpen' = [confirmDialogOpen EXCEPT ![f] = FALSE]
  /\ IF pendingScan[f] = NoScan
     THEN /\ flowEvent' = [kind |-> "ignored", flow |-> f, scan |-> NoScan]
          /\ UNCHANGED mutationsInFlight
     ELSE /\ flowEvent' = [kind |-> "sent", flow |-> f, scan |-> pendingScan[f]]
          /\ mutationsInFlight' = [mutationsInFlight EXCEPT ![f] = @ + 1]
  /\ UNCHANGED <<pendingScan, settledCount, flowToasts, scansInvalidations>>
  /\ UNCHANGED flowOthers

\* mutateAsync settles: onSuccess of the mutation when it succeeded, then
\* the rest of the try block or the catch block, then finally.
MutationSettles(f, outcome) ==
  /\ mutationsInFlight[f] > 0
  /\ mutationsInFlight' = [mutationsInFlight EXCEPT ![f] = @ - 1]
  /\ scansInvalidations' = scansInvalidations + ScansInvalidatedBy(outcome)
  /\ settledCount' = [settledCount EXCEPT ![f][outcome] = @ + 1]
  /\ flowToasts' = [flowToasts EXCEPT ![f][outcome] = @ + 1]
  /\ pendingScan' = [pendingScan EXCEPT ![f] = NoScan]
  /\ flowEvent' = [kind |-> outcome, flow |-> f, scan |-> NoScan]
  /\ UNCHANGED <<confirmDialogOpen, confirmCount>>
  /\ UNCHANGED flowOthers

FlowNext ==
  \/ \E f \in ScanFlows, scan \in ScanRecords : HandleRowAction(f, scan)
  \/ \E f \in ScanFlows : CancelConfirmDialog(f)
  \/ \E f \in ScanFlows : ConfirmAction(f)
  \/ \E f \in ScanFlows, outcome \in {"success", "error"} : MutationSettles(f, outcome)

\* The requests of flow f: sent, settled.
FlowSent(f) == mutationsInFlight[f] + settledCount[f].success + settledCount[f].error
FlowSettled(f) == settledCount[f].success + settledCount[f].error

\* C25: a deleteScan (stopScan) request is issued only by a confirmation in
\* its dialog with a scan picked, and the dialog is closed when it is sent;
\* every settled request has shown exactly one toast, the success toast
\* when it succeeded and the error toast when it failed; the settling of a
\* request clears the picked scan; "scans" is invalidated once per
\* successful request and never by a failed one.
C25_ConfirmedFlows ==
  /\ [](/\ \A f \in ScanFlows : flowToasts[f] = settledCount[f]
        /\ scansInvalidations =
             settledCount["delete"].success + settledCount["stop"].success)
  /\ [][\A f \in ScanFlows :
          /\ FlowSent(f)' > FlowSent(f) =>
               /\ confirmDialogOpen[f] /\ ~confirmDialogOpen'[f]
               /\ pendingScan[f] # NoScan
               /\ flowEvent' = [kind |-> "sent", flow |-> f, scan |-> pendingScan[f]]
               /\ FlowSent(f)' = FlowSent(f) + 1
          /\ FlowSettled(f)' > FlowSettled(f) =>
               /\ pendingScan'[f] = NoScan
               /\ FlowSettled(f)' = FlowSettled(f) + 1
               /\ flowToasts'[f].success + flowToasts'[f].error =
                    flowToasts[f].success + flowToasts[f].error + 1
       ]_vars

\* A stop succeeded and a delete failed, the delete settling last.
C25_Witness ==
  /\ settledCount["delete"] = [success |-> 0, error |-> 1]
  /\ settledCount["stop"] = [success |-> 1, error |-> 0]
  /\ flowEvent.kind = "error"
  /\ scansInvalidations = 1

(***************************************************************************)
(* ScreenshotsGallery: the selection and the bulk delete (targetId given). *)
(* serverShots is the set of the ids of the target's screenshots on the    *)
(* server, screenshots the ids of data.results, the page the query holds;  *)
(* a handler that changes the page or the filter is modelled with the      *)
(* fetch it starts.  deletesInFlight counts the bulkDelete requests not    *)
(* yet settled and sentIds holds the ids of the last one; shotRefetches    *)
(* counts the refetch() calls, shotToast is the last toast and shotEvent   *)
(* the last handler that ran.                                              *)
(***************************************************************************)
MaxShots == 4
ShotsPerPage == 2
MaxBulkDeletes == 2

ShotIds == 1..MaxShots
ShotFilters == {"", "odd"}

\* The screenshots the server finds for a filter.
MatchingShots(shots, filter) ==
  IF filter = "" THEN shots ELSE {i \in shots : i % 2 = 1}

\* The ids of one page of them, in the order of the ids.
PageOfShots(shots, page) ==
  {i \in shots : Cardinality({j \in shots : j < i}) \div ShotsPerPage = page}

\* data?.totalPages || 0
ShotTotalPages(shots) == (Cardinality(shots) + ShotsPerPage - 1) \div ShotsPerPage

\* A click handler that compares the sets, not their sizes.
AllSelected_BySet(selected, shown) == shown \subseteq selected

\* selectAll: selectedIds.size === screenshots.length
AllSelected(selected, shown) == Cardinality(selected) = Cardinality(shown)

\* A success path that keeps the selection.
SelectionAfterDelete_Kept(selected) == selected

\* handleBulkDelete, success: setSelectedIds(new Set())
SelectionAfterDelete(selected) == {}

\* ConfirmDialog with loading={isDeleting}: its confirm button.
ConfirmEnabled(loading) == ~loading

ShotInit ==
  /\ serverShots = ShotIds
  /\ shotFilter = ""
  /\ shotPage = 0
  /\ screenshots = PageOfShots(ShotIds, 0)
  /\ selectedIds = {}
  /\ shotDialogOpen = FALSE
  /\ isDeleting = FALSE
  /\ deletesInFlight = 0
  /\ sentIds = {}
  /\ bulkDeletes = 0
  /\ shotRefetches = 0
  /\ shotToast = ""
  /\ shotEvent = "mount"

ShotIdle == ShotInit

\* The checkbox of a screenshot of the page.
toggleSelect(id) ==
  /\ ~shotDialogOpen
  /\ id \in screenshots
  /\ selectedIds' = IF id \in selectedIds THEN selectedIds \ {id} ELSE selectedIds \cup {id}
  /\ shotEvent' = "toggleSelect"
  /\ UNCHANGED <<serverShots, shotFilter, shotPage, screenshots, shotDialogOpen,
                 isDeleting, deletesInFlight, sentIds, bulkDeletes, shotRefetches,
                 shotToast>>
  /\ UNCHANGED shotOthers

\* The select-all button, shown while the page has screenshots.
selectAll ==
  /\ ~shotDialogOpen
  /\ screenshots # {}
  /\ selectedIds' = IF AllSelected(selectedIds, screenshots) THEN {} ELSE screenshots
  /\ shotEvent' = "selectAll"
  /\ UNCHANGED <<serverShots, shotFilter, shotPage, screenshots, shotDialogOpen,
                 isDeleting, deletesInFlight, sentIds, bulkDeletes, shotRefetches,
                 shotToast>>
  /\ UNCHANGED shotOthers

\* The previous and next buttons of the pagination, and the page fetched.
TurnPage(page) ==
  /\ ~shotDialogOpen
  /\ page \in {shotPage - 1, shotPage + 1}
  /\ page >= 0 /\ page < ShotTotalPages(MatchingShots(serverShots, shotFilter))
  /\ shotPage' = page
  /\ screenshots' = PageOfShots(MatchingShots(serverShots, shotFilter), page)
  /\ shotEvent' = "page"
  /\ UNCHANGED <<serverShots, shotFilter, selectedIds, shotDialogOpen, isDeleting,
                 deletesInFlight, sentIds, bulkDeletes, shotRefetches, shotToast>>
  /\ UNCHANGED shotOthers

\* handleSearch: the filter is set, the page index is 0, the page is fetched.
SearchShots(filter) ==
  /\ ~shotDialogOpen
  /\ filter # shotFilter
  /\ shotFilter' = filter
  /\ shotPage' = 0
  /\ screenshots' = PageOfShots(MatchingShots(serverShots, filter), 0)
  /\ shotEvent' = "search"
  /\ UNCHANGED <<serverShots, selectedIds, shotDialogOpen, isDeleting,
                 deletesInFlight, sentIds, bulkDeletes, shotRefetches, shotToast>>
  /\ UNCHANGED shotOthers

\* The delete button, shown while selectedIds.size > 0.
OpenDeleteDialog ==
  /\ ~shotDialogOpen
  /\ selectedIds # {}
  /\ shotDialogOpen' = TRUE
  /\ shotEvent' = "openDialog"
  /\ UNCHANGED <<serverShots, shotFilter, shotPage, screenshots, selectedIds,
                 isDeleting, deletesInFlight, sentIds, bulkDeletes, shotRefetches,
                 shotToast>>
  /\ UNCHANGED shotOthers

\* ConfirmDialog: onOpenChange(false).
CancelDeleteDialog ==
  /\ shotDialogOpen
  /\ shotDialogOpen' = FALSE
  /\ shotEvent' = "cancel"
  /\ UNCHANGED <<serverShots, shotFilter, shotPage, screenshots, selectedIds,
                 isDeleting, deletesInFlight, sentIds, bulkDeletes, shotRefetches,
                 shotToast>>
  /\ UNCHANGED shotOthers

\* ConfirmDialog: onConfirm, that is handleBulkDelete up to its await.
ConfirmBulkDelete ==
  /\ shotDialogOpen
  /\ ConfirmEnabled(isDeleting)
  /\ bulkDeletes < MaxBulkDeletes
  /\ bulkDeletes' = bulkDeletes + 1
  /\ shotEvent' = "confirm"
  /\ IF Cardinality(selectedIds) = 0
     THEN UNCHANGED <<isDeleting, deletesInFlight, sentIds>>
     ELSE /\ isDeleting' = TRUE
          /\ deletesInFlight' = deletesInFlight + 1
          /\ sentIds' = selectedIds
  /\ UNCHANGED <<serverShots, shotFilter, shotPage, screenshots, selectedIds,
                 shotDialogOpen, shotRefetches, shotToast>>
  /\ UNCHANGED shotOthers

\* handleBulkDelete after the await, the request fulfilled: the server has
\* deleted the ids; toast, selection, dialog, refetch() and the page it
\* brings, finally.
BulkDeleteResolves ==
  /\ deletesInFlight > 0
  /\ deletesInFlight' = deletesInFlight - 1
  /\ serverShots' = serverShots \ sentIds
  /\ shotToast' = "deleteSuccess"
  /\ selectedIds' = SelectionAfterDelete(selectedIds)
  /\ shotDialogOpen' = FALSE
  /\ shotRefetches' = shotRefetches + 1
  /\ screenshots' = PageOfShots(MatchingShots(serverShots', shotFilter), shotPage)
  /\ isDeleting' = FALSE
  /\ shotEvent' = "resolved"
  /\ UNCHANGED <<shotFilter, shotPage, sentIds, bulkDeletes>>
  /\ UNCHANGED shotOthers

\* handleBulkDelete after the await, the request rejected: catch, finally.
BulkDeleteRejects ==
  /\ deletesInFlight > 0
  /\ deletesInFlight' = deletesInFlight - 1
  /\ shotToast' = "deleteFailed"
  /\ isDeleting' = FALSE
  /\ shotEvent' = "rejected"
  /\ UNCHANGED <<serverShots, shotFilter, shotPage, screenshots, selectedIds,
                 shotDialogOpen, sentIds, bulkDeletes, shotRefetches>>
  /\ UNCHANGED shotOthers

ShotNext ==
  \/ \E id \in ShotIds : toggleSelect(id)
  \/ selectAll
  \/ \E page \in 0..MaxShots : TurnPage(page)
  \/ \E filter \in ShotFilters : SearchShots(filter)
  \/ OpenDeleteDialog
  \/ CancelDeleteDialog
  \/ ConfirmBulkDelete
  \/ BulkDeleteResolves
  \/ BulkDeleteRejects

\* C26: a bulkDelete request is sent only with a selection that is not
\* empty; when it succeeds the selection is cleared, the dialog closed and
\* the list refetched; when it fails the selection and the dialog are as
\* they were, the error toast is shown and nothing is refetched; isDeleting
\* is true exactly while the request is in flight.
C26_BulkDeleteOutcomes ==
  /\ [](deletesInFlight <= 1 /\ (isDeleting <=> deletesInFlight = 1))
  /\ [][ /\ deletesInFlight' > deletesInFlight =>
              selectedIds # {} /\ sentIds' = selectedIds
         /\ (shotEvent' = "confirm" /\ selectedIds = {}) =>
              deletesInFlight' = deletesInFlight
         /\ (deletesInFlight' < deletesInFlight /\ shotEvent' = "resolved") =>
              /\ selectedIds' = {}
              /\ ~shotDialogOpen'
              /\ shotRefetches' = shotRefetches + 1
              /\ shotToast' = "deleteSuccess"
              /\ ~isDeleting'
         /\ (deletesInFlight' < deletesInFlight /\ shotEvent' = "rejected") =>
              /\ selectedIds' = selectedIds
              /\ shotDialogOpen' = shotDialogOpen
              /\ shotRefetches' = shotRefetches
              /\ shotToast' = "deleteFailed"
              /\ ~isDeleting'
         /\ deletesInFlight' < deletesInFlight => shotEvent' \in {"resolved", "rejected"}
       ]_vars

\* A bulk delete failed with the dialog open and two screenshots selected,
\* after an earlier one had succeeded.
C26_Witness ==
  /\ shotEvent = "rejected"
  /\ shotDialogOpen
  /\ Cardinality(selectedIds) = 2
  /\ shotRefetches = 1

\* C27: select-all clears the selection when every screenshot of the
\* current page is selected, and otherwise makes the selection exactly the
\* ids of the current page's screenshots, also while ids selected on another
\* page are in the selection.
C27_SelectAllTogglesPage ==
  [][shotEvent' = "selectAll" =>
       selectedIds' = IF screenshots \subseteq selectedIds THEN {} ELSE screenshots]_vars

\* What does hold: the same toggle while the selection holds ids of the
\* current page only.
SelectAllTogglesOwnPage ==
  [][(shotEvent' = "selectAll" /\ selectedIds \subseteq screenshots) =>
       selectedIds' = IF screenshots \subseteq selectedIds THEN {} ELSE screenshots]_vars

(***************************************************************************)
(* useLogin: the login mutation and the ['auth','me'] query.               *)
(* loginStage is where the mutation and its onSuccess are: "idle",         *)
(* "pending" (login in flight), "invalidating" (awaiting                   *)
(* invalidateQueries), "refetching" (awaiting refetchQueries), "success"   *)
(* and "error" once the callback has returned.  authObserved tells whether *)
(* a mounted component observes the query (invalidateQueries refetches     *)
(* active queries only); authInvalidated, authFetching and authRefetches   *)
(* are the query's state and the number of its refetches completed since   *)
(* the login was submitted; loginToasts are the toasts of the callbacks.   *)
(***************************************************************************)
MaxLogins == 3

NoFallback == ""

\* toastMessages.error(key): one error toast.
ToastError(key) == [kind |-> "error", fromCode |-> FALSE, text |-> key]

\* An onError that always shows the generic message.
LoginErrorToast_Generic(code) == ToastError("auth.loginFailed")

\* onError: if (errorCode) errorFromCode(errorCode) else error('auth.loginFailed')
LoginErrorToast(code) ==
  IF ~code.isNull /\ code.str # ""
  THEN ToastErrorFromCode(code, NoFallback)
  ELSE ToastError("auth.loginFailed")

LoginInit ==
  /\ loginStage = "idle"
  /\ authObserved \in BOOLEAN
  /\ authInvalidated = FALSE
  /\ authFetching = FALSE
  /\ authRefetches = 0
  /\ loginToasts = <<>>
  /\ routerPath = "/login/"
  /\ loginErrorData = [kind |-> "undefined", error |-> AbsentField,
                       state |-> AbsentField, hasCode |-> FALSE]
  /\ loginCount = 0

LoginIdle ==
  /\ loginStage = "idle"
  /\ authObserved = FALSE
  /\ authInvalidated = FALSE
  /\ authFetching = FALSE
  /\ authRefetches = 0
  /\ loginToasts = <<>>
  /\ routerPath = "/login/"
  /\ loginErrorData = [kind |-> "undefined", error |-> AbsentField,
                       state |-> AbsentField, hasCode |-> FALSE]
  /\ loginCount = 0

\* The login form calls mutate(data).
LoginSubmit ==
  /\ loginStage \in {"idle", "error"}
  /\ loginCount < MaxLogins
  /\ loginCount' = loginCount + 1
  /\ loginStage' = "pending"
  /\ loginToasts' = <<>>
  /\ authRefetches' = 0
  /\ authInvalidated' = FALSE
  /\ UNCHANGED <<authObserved, authFetching, routerPath, loginErrorData>>
  /\ UNCHANGED loginOthers

\* login(data) is fulfilled: onSuccess up to its first await;
\* invalidateQueries marks the query invalidated and fetches it when it is
\* observed.
LoginSucceeds ==
  /\ loginStage = "pending"
  /\ loginStage' = "invalidating"
  /\ authInvalidated' = TRUE
  /\ authFetching' = authObserved
  /\ UNCHANGED <<authObserved, authRefetches, loginToasts, routerPath,
                 loginErrorData, loginCount>>
  /\ UNCHANGED loginOthers

\* The promise of invalidateQueries is fulfilled (its fetch, if any, has
\* succeeded or failed): onSuccess up to its second await; refetchQueries
\* fetches the query.
InvalidateSettles(fetchOk) ==
  /\ loginStage = "invalidating"
  /\ loginStage' = "refetching"
  /\ authRefetches' = IF authFetching THEN authRefetches + 1 ELSE authRefetches
  /\ authInvalidated' = (authInvalidated /\ ~(authFetching /\ fetchOk))
  /\ authFetching' = TRUE
  /\ UNCHANGED <<authObserved, loginToasts, routerPath, loginErrorData, loginCount>>
  /\ UNCHANGED loginOthers

\* The promise of refetchQueries is fulfilled: the rest of onSuccess.
RefetchSettles(fetchOk) ==
  /\ loginStage = "refetching"
  /\ loginStage' = "success"
  /\ authRefetches' = authRefetches + 1
  /\ authInvalidated' = (authInvalidated /\ ~fetchOk)
  /\ authFetching' = FALSE
  /\ loginToasts' = Append(loginToasts, ToastSuccess("toast.auth.login.success"))
  /\ routerPath' = "/dashboard/"
  /\ UNCHANGED <<authObserved, loginErrorData, loginCount>>
  /\ UNCHANGED loginOthers

\* login(data) is rejected with the response body: onError.
LoginFails(body) ==
  /\ loginStage = "pending"
  /\ loginStage' = "error"
  /\ loginErrorData' = body
  /\ loginToasts' = Append(loginToasts, LoginErrorToast(getErrorCode(body)))
  /\ UNCHANGED <<authObserved, authInvalidated, authFetching, authRefetches,
                 routerPath, loginCount>>
  /\ UNCHANGED loginOthers

LoginNext ==
  \/ LoginSubmit
  \/ LoginSucceeds
  \/ \E fetchOk \in BOOLEAN : InvalidateSettles(fetchOk)
  \/ \E fetchOk \in BOOLEAN : RefetchSettles(fetchOk)
  \/ \E body \in ErrorBodies : LoginFails(body)

\* C28: after a successful login the success toast and the navigation to
\* the dashboard come only after the ['auth','me'] query was invalidated
\* and refetched; after a failed login there is no navigation and exactly
\* one error toast, that of the error code extracted from the response,
\* else the generic login-failed message.
C28_LoginWaitsForAuth ==
  /\ [](/\ (routerPath = "/dashboard/" \/ loginToasts # <<>>) =>
             loginStage \in {"success", "error"}
        /\ loginStage = "success" =>
             /\ routerPath = "/dashboard/"
             /\ loginToasts = <<ToastSuccess("toast.auth.login.success")>>
             /\ authRefetches >= 1
        /\ loginStage = "error" =>
             /\ routerPath = "/login/"
             /\ Len(loginToasts) = 1
             /\ loginToasts[1] =
                  IF CurrentErrorEnvelope(loginErrorData) /\ loginErrorData.error.str # ""
                  THEN [kind |-> "error", fromCode |-> TRUE,
                        text |-> loginErrorData.error.str]
                  ELSE IF ~CurrentErrorEnvelope(loginErrorData)
                          /\ LegacyEnvelope(loginErrorData)
                          /\ loginErrorData.state.str # "success"
                  THEN [kind |-> "error", fromCode |-> TRUE, text |-> "SERVER_ERROR"]
                  ELSE [kind |-> "error", fromCode |-> FALSE, text |-> "auth.loginFailed"])
  /\ [][routerPath' # routerPath =>
          /\ loginStage = "refetching"
          /\ authFetching
          /\ authRefetches' >= 1
          /\ ~authFetching']_vars

\* A login succeeded at the third attempt with the query observed: both the
\* refetch of invalidateQueries and that of refetchQueries completed first.
C28_Witness ==
  /\ loginStage = "success"
  /\ loginCount = 3
  /\ authRefetches = 2
  /\ routerPath = "/dashboard/"

(***************************************************************************)
(* Specifications.                                                         *)
(***************************************************************************)
InitSelection ==
  SelInit /\ PagIdle /\ DelIdle /\ RowIdle /\ LogIdle /\ RespIdle /\
  ListIdle /\ CmdIdle /\ ReqIdle /\ IcIdle /\ PollIdle /\ ScrIdle /\
  SizIdle /\ WidIdle /\ PrsIdle /\ GalIdle /\ HlIdle /\ MsgIdle /\ QsIdle /\
  IsdIdle /\ SyncIdle /\ SllIdle /\ FlowIdle /\ ShotIdle /\ LoginIdle

SpecSelection == InitSelection /\ [][SelNext]_vars

InitPagination ==
  PagInit /\ SelIdle /\ DelIdle /\ RowIdle /\ LogIdle /\ RespIdle /\
  ListIdle /\ CmdIdle /\ ReqIdle /\ IcIdle /\ PollIdle /\ ScrIdle /\
  SizIdle /\ WidIdle /\ PrsIdle /\ GalIdle /\ HlIdle /\ MsgIdle /\ QsIdle /\
  IsdIdle /\ SyncIdle /\ SllIdle /\ FlowIdle /\ ShotIdle /\ LoginIdle

SpecPagination == InitPagination /\ [][PagNext]_vars

InitDelete ==
  DelInit /\ SelIdle /\ PagIdle /\ RowIdle /\ LogIdle /\ RespIdle /\
  ListIdle /\ CmdIdle /\ ReqIdle /\ IcIdle /\ PollIdle /\ ScrIdle /\
  SizIdle /\ WidIdle /\ PrsIdle /\ GalIdle /\ HlIdle /\ MsgIdle /\ QsIdle /\
  IsdIdle /\ SyncIdle /\ SllIdle /\ FlowIdle /\ ShotIdle /\ LoginIdle

SpecDelete == InitDelete /\ [][DelNext]_vars

InitRows ==
  RowInit /\ SelIdle /\ PagIdle /\ DelIdle /\ LogIdle /\ RespIdle /\
  ListIdle /\ CmdIdle /\ ReqIdle /\ IcIdle /\ PollIdle /\ ScrIdle /\
  SizIdle /\ WidIdle /\ PrsIdle /\ GalIdle /\ HlIdle /\ MsgIdle /\ QsIdle /\
  IsdIdle /\ SyncIdle /\ SllIdle /\ FlowIdle /\ ShotIdle /\ LoginIdle

SpecRows == InitRows /\ [][RowNext]_vars

InitLog ==
  LogInit /\ SelIdle /\ PagIdle /\ DelIdle /\ RowIdle /\ RespIdle /\
  ListIdle /\ CmdIdle /\ ReqIdle /\ IcIdle /\ PollIdle /\ ScrIdle /\
  SizIdle /\ WidIdle /\ PrsIdle /\ GalIdle /\ HlIdle /\ MsgIdle /\ QsIdle /\
  IsdIdle /\ SyncIdle /\ SllIdle /\ FlowIdle /\ ShotIdle /\ LoginIdle

SpecLog == InitLog /\ [][LogNext]_vars

InitResponse ==
  RespInit /\ SelIdle /\ PagIdle /\ DelIdle /\ RowIdle /\ LogIdle /\
  ListIdle /\ CmdIdle /\ ReqIdle /\ IcIdle /\ PollIdle /\ ScrIdle /\
  SizIdle /\ WidIdle /\ PrsIdle /\ GalIdle /\ HlIdle /\ MsgIdle /\ QsIdle /\
  IsdIdle /\ SyncIdle /\ SllIdle /\ FlowIdle /\ ShotIdle /\ LoginIdle

SpecResponse == InitResponse /\ [][RespNext]_vars

InitCommands ==
  ListInit /\ SelIdle /\ PagIdle /\ DelIdle /\ RowIdle /\ LogIdle /\
  RespIdle /\ CmdIdle /\ ReqIdle /\ IcIdle /\ PollIdle /\ ScrIdle /\
  SizIdle /\ WidIdle /\ PrsIdle /\ GalIdle /\ HlIdle /\ MsgIdle /\ QsIdle /\
  IsdIdle /\ SyncIdle /\ SllIdle /\ FlowIdle /\ ShotIdle /\ LoginIdle

SpecCommands == InitCommands /\ [][ListNext]_vars

InitMutations ==
  CmdInit /\ SelIdle /\ PagIdle /\ DelIdle /\ RowIdle /\ LogIdle /\
  RespIdle /\ ListIdle /\ ReqIdle /\ IcIdle /\ PollIdle /\ ScrIdle /\
  SizIdle /\ WidIdle /\ PrsIdle /\ GalIdle /\ HlIdle /\ MsgIdle /\ QsIdle /\
  IsdIdle /\ SyncIdle /\ SllIdle /\ FlowIdle /\ ShotIdle /\ LoginIdle

SpecMutations == InitMutations /\ [][CmdNext]_vars

InitRequests ==
  ReqInit /\ SelIdle /\ PagIdle /\ DelIdle /\ RowIdle /\ LogIdle /\
  RespIdle /\ ListIdle /\ CmdIdle /\ IcIdle /\ PollIdle /\ ScrIdle /\
  SizIdle /\ WidIdle /\ PrsIdle /\ GalIdle /\ HlIdle /\ MsgIdle /\ QsIdle /\
  IsdIdle /\ SyncIdle /\ SllIdle /\ FlowIdle /\ ShotIdle /\ LoginIdle

SpecRequests == InitRequests /\ [][ReqNext]_vars

InitInterceptor ==
  IcInit /\ SelIdle /\ PagIdle /\ DelIdle /\ RowIdle /\ LogIdle /\ RespIdle /\
  ListIdle /\ CmdIdle /\ ReqIdle /\ PollIdle /\ ScrIdle /\ SizIdle /\
  WidIdle /\ PrsIdle /\ GalIdle /\ HlIdle /\ MsgIdle /\ QsIdle /\ IsdIdle /\
  SyncIdle /\ SllIdle /\ FlowIdle /\ ShotIdle /\ LoginIdle

SpecInterceptor == InitInterceptor /\ [][IcNext]_vars

InitPolling ==
  PollInit /\ SelIdle /\ PagIdle /\ DelIdle /\ RowIdle /\ LogIdle /\
  RespIdle /\ ListIdle /\ CmdIdle /\ ReqIdle /\ IcIdle /\ ScrIdle /\
  SizIdle /\ WidIdle /\ PrsIdle /\ GalIdle /\ HlIdle /\ MsgIdle /\ QsIdle /\
  IsdIdle /\ SyncIdle /\ SllIdle /\ FlowIdle /\ ShotIdle /\ LoginIdle

SpecPolling == InitPolling /\ [][PollNext]_vars

InitScroll ==
  ScrInit /\ SelIdle /\ PagIdle /\ DelIdle /\ RowIdle /\ LogIdle /\
  RespIdle /\ ListIdle /\ CmdIdle /\ ReqIdle /\ IcIdle /\ PollIdle /\
  SizIdle /\ WidIdle /\ PrsIdle /\ GalIdle /\ HlIdle /\ MsgIdle /\ QsIdle /\
  IsdIdle /\ SyncIdle /\ SllIdle /\ FlowIdle /\ ShotIdle /\ LoginIdle

SpecScroll == InitScroll /\ [][ScrNext]_vars

InitAutoSizing ==
  SizInit /\ SelIdle /\ PagIdle /\ DelIdle /\ RowIdle /\ LogIdle /\
  RespIdle /\ ListIdle /\ CmdIdle /\ ReqIdle /\ IcIdle /\ PollIdle /\
  ScrIdle /\ WidIdle /\ PrsIdle /\ GalIdle /\ HlIdle /\ MsgIdle /\ QsIdle /\
  IsdIdle /\ SyncIdle /\ SllIdle /\ FlowIdle /\ ShotIdle /\ LoginIdle

SpecAutoSizing == InitAutoSizing /\ [][SizNext]_vars

InitColumnWidths ==
  WidInit /\ SelIdle /\ PagIdle /\ DelIdle /\ RowIdle /\ LogIdle /\
  RespIdle /\ ListIdle /\ CmdIdle /\ ReqIdle /\ IcIdle /\ PollIdle /\
  ScrIdle /\ SizIdle /\ PrsIdle /\ GalIdle /\ HlIdle /\ MsgIdle /\ QsIdle /\
  IsdIdle /\ SyncIdle /\ SllIdle /\ FlowIdle /\ ShotIdle /\ LoginIdle

SpecColumnWidths == InitColumnWidths /\ [][WidNext]_vars

InitParseResponse ==
  PrsInit /\ SelIdle /\ PagIdle /\ DelIdle /\ RowIdle /\ LogIdle /\
  RespIdle /\ ListIdle /\ CmdIdle /\ ReqIdle /\ IcIdle /\ PollIdle /\
  ScrIdle /\ SizIdle /\ WidIdle /\ GalIdle /\ HlIdle /\ MsgIdle /\ QsIdle /\
  IsdIdle /\ SyncIdle /\ SllIdle /\ FlowIdle /\ ShotIdle /\ LoginIdle

SpecParseResponse == InitParseResponse /\ [][PrsNext]_vars

InitGallery ==
  GalInit /\ SelIdle /\ PagIdle /\ DelIdle /\ RowIdle /\ LogIdle /\
  RespIdle /\ ListIdle /\ CmdIdle /\ ReqIdle /\ IcIdle /\ PollIdle /\
  ScrIdle /\ SizIdle /\ WidIdle /\ PrsIdle /\ HlIdle /\ MsgIdle /\ QsIdle /\
  IsdIdle /\ SyncIdle /\ SllIdle /\ FlowIdle /\ ShotIdle /\ LoginIdle

SpecGallery == InitGallery /\ [][GalNext]_vars

InitHighlight ==
  HlInit /\ SelIdle /\ PagIdle /\ DelIdle /\ RowIdle /\ LogIdle /\ RespIdle /\
  ListIdle /\ CmdIdle /\ ReqIdle /\ IcIdle /\ PollIdle /\ ScrIdle /\
  SizIdle /\ WidIdle /\ PrsIdle /\ GalIdle /\ MsgIdle /\ QsIdle /\ IsdIdle /\
  SyncIdle /\ SllIdle /\ FlowIdle /\ ShotIdle /\ LoginIdle

SpecHighlight == InitHighlight /\ [][HlNext]_vars

InitErrorMessage ==
  MsgInit /\ SelIdle /\ PagIdle /\ DelIdle /\ RowIdle /\ LogIdle /\
  RespIdle /\ ListIdle /\ CmdIdle /\ ReqIdle /\ IcIdle /\ PollIdle /\
  ScrIdle /\ SizIdle /\ WidIdle /\ PrsIdle /\ GalIdle /\ HlIdle /\ QsIdle /\
  IsdIdle /\ SyncIdle /\ SllIdle /\ FlowIdle /\ ShotIdle /\ LoginIdle

SpecErrorMessage == InitErrorMessage /\ [][MsgNext]_vars

InitQuickScan ==
  QsInit /\ SelIdle /\ PagIdle /\ DelIdle /\ RowIdle /\ LogIdle /\ RespIdle /\
  ListIdle /\ CmdIdle /\ ReqIdle /\ IcIdle /\ PollIdle /\ ScrIdle /\
  SizIdle /\ WidIdle /\ PrsIdle /\ GalIdle /\ HlIdle /\ MsgIdle /\ IsdIdle /\
  SyncIdle /\ SllIdle /\ FlowIdle /\ ShotIdle /\ LoginIdle

SpecQuickScan == InitQuickScan /\ [][QsNext]_vars

InitInitiateScan ==
  IsdInit /\ SelIdle /\ PagIdle /\ DelIdle /\ RowIdle /\ LogIdle /\
  RespIdle /\ ListIdle /\ CmdIdle /\ ReqIdle /\ IcIdle /\ PollIdle /\
  ScrIdle /\ SizIdle /\ WidIdle /\ PrsIdle /\ GalIdle /\ HlIdle /\ MsgIdle /\
  QsIdle /\ SyncIdle /\ SllIdle /\ FlowIdle /\ ShotIdle /\ LoginIdle

SpecInitiateScan == InitInitiateScan /\ [][IsdNext]_vars

InitSelectionSync ==
  SyncInit /\ SelIdle /\ PagIdle /\ DelIdle /\ RowIdle /\ LogIdle /\
  RespIdle /\ ListIdle /\ CmdIdle /\ ReqIdle /\ IcIdle /\ PollIdle /\
  ScrIdle /\ SizIdle /\ WidIdle /\ PrsIdle /\ GalIdle /\ HlIdle /\ MsgIdle /\
  QsIdle /\ IsdIdle /\ SllIdle /\ FlowIdle /\ ShotIdle /\ LoginIdle

SpecSelectionSync == InitSelectionSync /\ [][SyncNext]_vars

InitScanLogList ==
  SllInit /\ SelIdle /\ PagIdle /\ DelIdle /\ RowIdle /\ LogIdle /\
  RespIdle /\ ListIdle /\ CmdIdle /\ ReqIdle /\ IcIdle /\ PollIdle /\
  ScrIdle /\ SizIdle /\ WidIdle /\ PrsIdle /\ GalIdle /\ HlIdle /\ MsgIdle /\
  QsIdle /\ IsdIdle /\ SyncIdle /\ FlowIdle /\ ShotIdle /\ LoginIdle

SpecScanLogList == InitScanLogList /\ [][SllNext]_vars

InitScanFlows ==
  FlowInit /\ SelIdle /\ PagIdle /\ DelIdle /\ RowIdle /\ LogIdle /\
  RespIdle /\ ListIdle /\ CmdIdle /\ ReqIdle /\ IcIdle /\ PollIdle /\
  ScrIdle /\ SizIdle /\ WidIdle /\ PrsIdle /\ GalIdle /\ HlIdle /\ MsgIdle /\
  QsIdle /\ IsdIdle /\ SyncIdle /\ SllIdle /\ ShotIdle /\ LoginIdle

SpecScanFlows == InitScanFlows /\ [][FlowNext]_vars

InitGallerySelection ==
  ShotInit /\ SelIdle /\ PagIdle /\ DelIdle /\ RowIdle /\ LogIdle /\
  RespIdle /\ ListIdle /\ CmdIdle /\ ReqIdle /\ IcIdle /\ PollIdle /\
  ScrIdle /\ SizIdle /\ WidIdle /\ PrsIdle /\ GalIdle /\ HlIdle /\ MsgIdle /\
  QsIdle /\ IsdIdle /\ SyncIdle /\ SllIdle /\ FlowIdle /\ LoginIdle

SpecGallerySelection == InitGallerySelection /\ [][ShotNext]_vars

InitLogin ==
  LoginInit /\ SelIdle /\ PagIdle /\ DelIdle /\ RowIdle /\ LogIdle /\
  RespIdle /\ ListIdle /\ CmdIdle /\ ReqIdle /\ IcIdle /\ PollIdle /\
  ScrIdle /\ SizIdle /\ WidIdle /\ PrsIdle /\ GalIdle /\ HlIdle /\ MsgIdle /\
  QsIdle /\ IsdIdle /\ SyncIdle /\ SllIdle /\ FlowIdle /\ ShotIdle

SpecLogin == InitLogin /\ [][LoginNext]_vars

====
